---- MODULE Spec2Model ----
(***************************************************************************)
(* A model of the branch-redirect-service: the Fastify routes GET /r/:slug *)
(* and GET /preview/:slug, the URL builder, the bot and platform           *)
(* classifiers and the preview renderer.                                   *)
(*                                                                         *)
(* Strings are TLA+ strings handled character by character (Len, SubSeq,   *)
(* \o), so URL parsing, form encoding, HTML escaping and the regular       *)
(* expressions of the source are computed, not assumed.  An optional       *)
(* string (string | undefined) is the empty tuple when absent and the      *)
(* one-element tuple <<s>> when present.                                   *)
(***************************************************************************)
EXTENDS Integers, Sequences, FiniteSets, TLC

(***************************************************************************)
(* JavaScript values                                                       *)
(***************************************************************************)

\* undefined
Undefined == <<>>

\* a defined string value
Str(s) == <<s>>

\* typeof v === 'string'
IsString(v) == v # Undefined

\* Boolean(v) of a string | undefined: undefined and '' are falsy
Truthy(v) == v # Undefined /\ v[1] # ""

\* a || b on string | undefined
OrElse(a, b) == IF Truthy(a) THEN a ELSE b

(***************************************************************************)
(* String primitives                                                       *)
(***************************************************************************)

\* s.charAt(i - 1): the empty string outside the string
Char(s, i) == IF 1 <= i /\ i <= Len(s) THEN SubSeq(s, i, i) ELSE ""

\* s.substring(i - 1)
From(s, i) == SubSeq(s, i, Len(s))

\* s.startsWith(sub, i - 1)
StartsWithAt(s, sub, i) ==
  1 <= i /\ i + Len(sub) - 1 <= Len(s) /\ SubSeq(s, i, i + Len(sub) - 1) = sub

\* the least of a set of indices, 0 for the empty set
Least(indices) ==
  IF indices = {} THEN 0 ELSE CHOOSE i \in indices : \A j \in indices : i <= j

\* s.indexOf(sub, from - 1) + 1, hence 0 when sub does not occur
IndexOf(s, sub, from) ==
  Least({i \in from..(Len(s) - Len(sub) + 1) : SubSeq(s, i, i + Len(sub) - 1) = sub})

\* s.includes(sub)
Includes(s, sub) == IndexOf(s, sub, 1) > 0

\* the text before index i, the whole text for i = 0 (no occurrence)
Before(s, i) == IF i = 0 THEN s ELSE SubSeq(s, 1, i - 1)

\* the text from index i on, the empty text for i = 0 (no occurrence)
After(s, i) == IF i = 0 THEN "" ELSE SubSeq(s, i, Len(s))

\* the concatenation of pieces[lo], ..., pieces[hi]
RECURSIVE Join(_, _, _)
Join(pieces, lo, hi) ==
  IF lo > hi THEN ""
  ELSE IF lo = hi THEN pieces[lo]
  ELSE LET mid == (lo + hi) \div 2
       IN Join(pieces, lo, mid) \o Join(pieces, mid + 1, hi)

\* the concatenation of the pieces, in order: a replacement made character
\* by character, as s.replace(/./g, ...) makes it, is the concatenation of
\* what replaces each character
Concat(pieces) == Join(pieces, 1, Len(pieces))

UpperCase == "ABCDEFGHIJKLMNOPQRSTUVWXYZ"
LowerCase == "abcdefghijklmnopqrstuvwxyz"
Digits == "0123456789"

\* the set of the characters of a string
CharsOf(s) == {Char(s, i) : i \in 1..Len(s)}

UpperChars == CharsOf(UpperCase)
LowerChars == CharsOf(LowerCase)
DigitChars == CharsOf(Digits)

IsUpper(c) == c \in UpperChars
IsLower(c) == c \in LowerChars
IsDigit(c) == c \in DigitChars

\* \w of a regular expression
IsWordChar(c) == IsUpper(c) \/ IsLower(c) \/ IsDigit(c) \/ c = "_"

\* the lower-case letter of each upper-case letter
LowerOf == [c \in UpperChars |-> Char(LowerCase, IndexOf(UpperCase, c, 1))]

\* c.toLowerCase() of one character
LowerChar(c) == IF IsUpper(c) THEN LowerOf[c] ELSE c

\* s.toLowerCase()
ToLowerCase(s) == Concat([i \in 1..Len(s) |-> LowerChar(Char(s, i))])

\* s.trim() for the blank
RECURSIVE Trim(_)
Trim(s) ==
  IF s = "" THEN ""
  ELSE IF Char(s, 1) = " " THEN Trim(From(s, 2))
  ELSE IF Char(s, Len(s)) = " " THEN Trim(SubSeq(s, 1, Len(s) - 1))
  ELSE s

\* s.split(sep), sep one character
RECURSIVE Split(_, _)
Split(s, sep) ==
  LET i == IndexOf(s, sep, 1)
  IN IF i = 0 THEN <<s>>
     ELSE <<SubSeq(s, 1, i - 1)>> \o Split(From(s, i + 1), sep)

(***************************************************************************)
(* Percent encoding (WHATWG URL standard, as implemented by the URL and    *)
(* URLSearchParams classes the source uses)                                *)
(***************************************************************************)

\* the printable ASCII characters of codes 32..95, code 31 + i at index i
AsciiLow == " !\"#$%&'()*+,-./0123456789:;<=>?@ABCDEFGHIJKLMNOPQRSTUVWXYZ[\\]^_"

\* the printable ASCII characters of codes 97..126, code 96 + i at index i
\* (the grave accent, code 96, cannot be written in a TLA+ string)
AsciiHigh == "abcdefghijklmnopqrstuvwxyz{|}~"

HexDigits == "0123456789ABCDEF"

\* the code of each character: line feed is 10, a printable ASCII character
\* its code
CharCodes ==
  [c \in CharsOf(AsciiLow) \cup CharsOf(AsciiHigh) \cup {"\n"} |->
     IF c = "\n" THEN 10
     ELSE IF IndexOf(AsciiLow, c, 1) > 0 THEN 31 + IndexOf(AsciiLow, c, 1)
     ELSE 96 + IndexOf(AsciiHigh, c, 1)]

\* c.charCodeAt(0)
CharCode(c) == CharCodes[c]

\* String.fromCharCode(n)
FromCharCode(n) ==
  IF n = 10 THEN "\n"
  ELSE IF n <= 95 THEN Char(AsciiLow, n - 31)
  ELSE Char(AsciiHigh, n - 96)

\* %XX for the byte n, in upper-case hexadecimal
HexByte(n) == "%" \o Char(HexDigits, (n \div 16) + 1) \o Char(HexDigits, (n % 16) + 1)

\* characters of more than one UTF-8 byte, each with its percent-encoded
\* bytes, and the replacement character a decoder writes for a byte sequence
\* that is no UTF-8
Utf8Escapes == << <<"é", "%C3%A9">>, <<"€", "%E2%82%AC">>, <<"�", "%EF%BF%BD">> >>

\* the index of the character in Utf8Escapes
Utf8Index(c) == CHOOSE k \in 1..Len(Utf8Escapes) : Utf8Escapes[k][1] = c

\* the percent-encoded byte of a character: %XX, upper-case hexadecimal
\* the percent-encoded UTF-8 bytes of a character: %XX for each byte, in
\* upper-case hexadecimal
PercentEncodeChar(c) ==
  IF c \in DOMAIN CharCodes THEN HexByte(CharCode(c)) ELSE Utf8Escapes[Utf8Index(c)][2]

\* the hexadecimal digits, of either case
HexChars == CharsOf("0123456789ABCDEFabcdef")

IsHexDigit(c) == c \in HexChars

\* the value of a hexadecimal digit
HexValue(c) ==
  Least({v \in 1..16 : Char(HexDigits, v) = c \/ Char("0123456789abcdef", v) = c}) - 1

\* the component percent-encoding (encodeURIComponent): the blank is %20
FormEncodeCharBlankAsByte(c) ==
  IF IsUpper(c) \/ IsLower(c) \/ IsDigit(c) \/ c \in {"*", "-", ".", "_"} THEN c
  ELSE PercentEncodeChar(c)

\* application/x-www-form-urlencoded byte serializer: alphanumerics and *-._
\* are kept, the blank becomes +, every other byte is percent-encoded
FormEncodeChar(c) ==
  IF IsUpper(c) \/ IsLower(c) \/ IsDigit(c) \/ c \in {"*", "-", ".", "_"} THEN c
  ELSE IF c = " " THEN "+"
  ELSE PercentEncodeChar(c)

FormEncode(s) == Concat([i \in 1..Len(s) |-> FormEncodeChar(Char(s, i))])

\* whether a percent-encoded byte %XX starts at index i
IsEscapeAt(s, i) ==
  Char(s, i) = "%" /\ IsHexDigit(Char(s, i + 1)) /\ IsHexDigit(Char(s, i + 2))

\* the character of Utf8Escapes whose percent-encoded bytes start at index
\* i, in hexadecimal digits of either case; 0 when none does
\* the character of Utf8Escapes whose percent-encoded bytes start at index
\* i, in hexadecimal digits of either case; 0 when none does
Utf8At(s, i) ==
  Least({k \in 1..Len(Utf8Escapes) :
           /\ Char(s, i) = "%"
           /\ i + Len(Utf8Escapes[k][2]) - 1 <= Len(s)
           /\ ToLowerCase(SubSeq(s, i, i + Len(Utf8Escapes[k][2]) - 1))
                = ToLowerCase(Utf8Escapes[k][2])})

\* whether index i lies inside the bytes of a character that starts before it
InsideUtf8(s, i) ==
  \E j \in (i - 8)..(i - 1) :
    Utf8At(s, j) > 0 /\ i < j + Len(Utf8Escapes[Utf8At(s, j)][2])

\* the character of one decoded byte: itself for an ASCII byte, U+FFFD for
\* a byte that is not part of a UTF-8 sequence
FromByte(n) == IF n < 128 THEN FromCharCode(n) ELSE "�"

\* application/x-www-form-urlencoded decoding: + is the blank, %XX the byte XX,
\* a % that two hexadecimal digits do not follow is kept
\* application/x-www-form-urlencoded decoding: + is the blank, %XX the byte XX,
\* a % that two hexadecimal digits do not follow is kept; the bytes are read
\* as UTF-8, a byte that belongs to no character becomes U+FFFD
FormDecodeAt(s, i) ==
  IF Utf8At(s, i) > 0 THEN Utf8Escapes[Utf8At(s, i)][1]
  ELSE IF InsideUtf8(s, i) \/ IsEscapeAt(s, i - 1) \/ IsEscapeAt(s, i - 2) THEN ""
  ELSE IF IsEscapeAt(s, i)
    THEN FromByte(16 * HexValue(Char(s, i + 1)) + HexValue(Char(s, i + 2)))
  ELSE IF Char(s, i) = "+" THEN " "
  ELSE Char(s, i)

FormDecode(s) == Concat([i \in 1..Len(s) |-> FormDecodeAt(s, i)])

\* the path percent-encode set applied by the pathname setter
\* the path percent-encode set applied by the pathname setter
PathEncodeChar(c) ==
  IF c = "\n" THEN ""
  ELSE IF c \in {" ", "\"", "#", "<", ">", "?", "{", "}"} \/ c \notin DOMAIN CharCodes
    THEN PercentEncodeChar(c)
  ELSE c

PathEncode(s) == Concat([i \in 1..Len(s) |-> PathEncodeChar(Char(s, i))])

(***************************************************************************)
(* URLSearchParams: an ordered list of <<name, value>> pairs               *)
(***************************************************************************)

\* the names of a list of pairs
Names(list) == {list[i][1] : i \in 1..Len(list)}

\* searchParams.has(name)
Has(list, name) == name \in Names(list)

\* searchParams.get(name): the value of the first pair of that name
Get(list, name) ==
  IF Has(list, name)
    THEN Str(list[CHOOSE i \in 1..Len(list) :
                    /\ list[i][1] = name
                    /\ \A j \in 1..(i - 1) : list[j][1] # name][2])
    ELSE Undefined

\* searchParams.getAll(name)
GetAll(list, name) ==
  LET F[i \in 0..Len(list)] ==
        IF i = 0 THEN <<>>
        ELSE IF list[i][1] = name THEN Append(F[i - 1], list[i][2]) ELSE F[i - 1]
  IN F[Len(list)]

\* searchParams.append(name, value) in the place of set: the pairs of the
\* base URL stay
SetAppending(list, name, value) == Append(list, <<name, value>>)

\* searchParams.set(name, value): the first pair of that name takes the value
\* and the later ones are removed; without such a pair, one is appended
Set(list, name, value) ==
  LET F[i \in 0..Len(list)] ==
        IF i = 0 THEN <<>>
        ELSE IF list[i][1] # name THEN Append(F[i - 1], list[i])
        ELSE IF Has(F[i - 1], name) THEN F[i - 1]
        ELSE Append(F[i - 1], <<name, value>>)
  IN IF Has(list, name) THEN F[Len(list)] ELSE Append(list, <<name, value>>)

\* one piece of a query string, with its first = at index e (0 without one):
\* the decoded name and the decoded value
ParsePair(piece, e) ==
  <<FormDecode(Before(piece, e)), FormDecode(IF e = 0 THEN "" ELSE From(piece, e + 1))>>

\* the pairs of the pieces of a query string, the empty pieces skipped
ParsePieces(pieces) ==
  LET F[i \in 0..Len(pieces)] ==
        IF i = 0 THEN <<>>
        ELSE IF pieces[i] = "" THEN F[i - 1]
        ELSE Append(F[i - 1], ParsePair(pieces[i], IndexOf(pieces[i], "=", 1)))
  IN F[Len(pieces)]

\* the application/x-www-form-urlencoded parser: split at &, skip empty
\* pieces, split each piece at its first =, decode name and value
ParseQuery(qs) == ParsePieces(Split(qs, "&"))

\* searchParams.toString(): name=value pairs joined by &
SerializeQuery(list) ==
  LET F[i \in 0..Len(list)] ==
        IF i = 0 THEN ""
        ELSE F[i - 1] \o (IF i = 1 THEN "" ELSE "&")
               \o FormEncode(list[i][1]) \o "=" \o FormEncode(list[i][2])
  IN F[Len(list)]

(***************************************************************************)
(* URL: [protocol, hostname, port, pathname, searchParams, hash]           *)
(***************************************************************************)

\* the least positive of the indices, 0 when none is positive
FirstOf(indices) == Least({i \in indices : i > 0})

\* where the authority ends in the text after the scheme: the index of the
\* first of / ? #, 0 without one
AuthorityEnd(rest) ==
  FirstOf({IndexOf(rest, "/", 1), IndexOf(rest, "?", 1), IndexOf(rest, "#", 1)})

\* the text after the separator at index i, the empty text for i = 0
AfterSeparator(s, i) == IF i = 0 THEN "" ELSE From(s, i + 1)

\* the URL of a scheme, an authority host[:port], a path with its query, and
\* a fragment
ParseParts(protocol, authority, beforeHash, hash) ==
  [protocol |-> protocol,
   hostname |-> ToLowerCase(Before(authority, IndexOf(authority, ":", 1))),
   port |-> AfterSeparator(authority, IndexOf(authority, ":", 1)),
   pathname |-> IF Before(beforeHash, IndexOf(beforeHash, "?", 1)) = "" THEN "/"
                ELSE Before(beforeHash, IndexOf(beforeHash, "?", 1)),
   searchParams |-> ParseQuery(AfterSeparator(beforeHash, IndexOf(beforeHash, "?", 1))),
   hash |-> hash]

\* the URL of a scheme, an authority, and whatever follows the authority
ParseAfterAuthority(protocol, authority, after) ==
  ParseParts(protocol, authority, Before(after, IndexOf(after, "#", 1)),
             After(after, IndexOf(after, "#", 1)))

\* the URL of a scheme and the text after scheme://
ParseAfterScheme(protocol, rest) ==
  ParseAfterAuthority(protocol, Before(rest, AuthorityEnd(rest)),
                      After(rest, AuthorityEnd(rest)))

\* new URL(str) for an absolute http(s) URL: the host is lower-cased, an
\* empty path is /, the query is parsed into searchParams
ParseURL(str) ==
  ParseAfterScheme(ToLowerCase(SubSeq(str, 1, IndexOf(str, "://", 1))),
                   From(str, IndexOf(str, "://", 1) + 3))

\* whether new URL(str) succeeds rather than throws: a scheme and a host
IsValidURL(str) == IndexOf(str, "://", 1) > 1 /\ ParseURL(str).hostname # ""

\* url.toString() once searchParams has been written: the query is the
\* serialization of the list
SerializeURL(url) ==
  url.protocol \o "//" \o url.hostname
    \o (IF url.port = "" THEN "" ELSE ":" \o url.port)
    \o url.pathname
    \o (IF url.searchParams = <<>> THEN "" ELSE "?" \o SerializeQuery(url.searchParams))
    \o url.hash

\* url.pathname = path
SetPathname(url, path) == [url EXCEPT !.pathname = PathEncode(path)]

\* url.searchParams.set(name, value)
SetParam(url, name, value) == [url EXCEPT !.searchParams = Set(@, name, value)]

(***************************************************************************)
(* src/lib/urlBuilder.ts                                                   *)
(*                                                                         *)
(* A parameter object (RedirectParams, Record<string, string | undefined>) *)
(* is the list of its entries <<key, value>> in Object.entries order, the  *)
(* keys distinct and the value an optional string.                         *)
(***************************************************************************)

\* params[key]
Prop(params, key) ==
  IF \E i \in 1..Len(params) : params[i][1] = key
    THEN params[CHOOSE i \in 1..Len(params) : params[i][1] = key][2]
    ELSE Undefined

\* the keys of a parameter object
Keys(params) == {params[i][1] : i \in 1..Len(params)}

\* extractPassthroughParams without the test of the value against ''
extractPassthroughParamsKeepingEmpty(params) ==
  LET F[i \in 0..Len(params)] ==
        IF i = 0 THEN <<>>
        ELSE LET key == params[i][1]
                 value == params[i][2]
             IN IF key = "phone" \/ key = "text" THEN F[i - 1]
                ELSE IF value # Undefined
                  THEN Append(F[i - 1], <<key, value[1]>>)
                ELSE F[i - 1]
  IN F[Len(params)]

\* extractPassthroughParams: the entries other than phone and text whose
\* value is a non-empty string, as Record<string, string>
extractPassthroughParams(params) ==
  LET F[i \in 0..Len(params)] ==
        IF i = 0 THEN <<>>
        ELSE LET key == params[i][1]
                 value == params[i][2]
             IN IF key = "phone" \/ key = "text" THEN F[i - 1]
                ELSE IF value # Undefined /\ value # Str("")
                  THEN Append(F[i - 1], <<key, value[1]>>)
                ELSE F[i - 1]
  IN F[Len(params)]

\* the loop over Object.entries(passthroughParams) without the test
\* !url.searchParams.has(key): every passthrough parameter is set
AddPassthroughOverwriting(url, passthroughParams) ==
  LET F[i \in 0..Len(passthroughParams)] ==
        IF i = 0 THEN url
        ELSE SetParam(F[i - 1], passthroughParams[i][1], passthroughParams[i][2])
  IN F[Len(passthroughParams)]

\* the loop over Object.entries(passthroughParams): a key the URL does not
\* have yet is set, a key it has is left alone
AddPassthrough(url, passthroughParams) ==
  LET F[i \in 0..Len(passthroughParams)] ==
        IF i = 0 THEN url
        ELSE LET key == passthroughParams[i][1]
                 value == passthroughParams[i][2]
             IN IF ~Has(F[i - 1].searchParams, key)
                  THEN SetParam(F[i - 1], key, value)
                  ELSE F[i - 1]
  IN F[Len(passthroughParams)]

\* url.pathname.match(/\/\d+/): a slash followed by a digit, anywhere
MatchesSlashDigits(pathname) ==
  \E i \in 1..(Len(pathname) - 1) :
    Char(pathname, i) = "/" /\ IsDigit(Char(pathname, i + 1))

\* the branches of buildWhatsAppUrl on the host: the path and the phone and
\* text parameters of the URL
ShapeForHost(url, host, phone, encodedText) ==
  IF host = "wa.me"
    THEN SetParam(IF ~MatchesSlashDigits(url.pathname)
                    THEN SetPathname(url, "/" \o phone)
                    ELSE url,
                  "text", encodedText)
  ELSE IF host = "api.whatsapp.com" \/ host = "web.whatsapp.com"
    THEN SetParam(SetParam(IF ~Includes(url.pathname, "/send")
                             THEN SetPathname(url, "/send")
                             ELSE url,
                           "phone", phone),
                  "text", encodedText)
  ELSE SetParam(SetParam(url, "phone", phone), "text", encodedText)

\* host = url.hostname.toLowerCase(), encodedText = text
ShapeWhatsAppUrl(url, phone, text) ==
  ShapeForHost(url, ToLowerCase(url.hostname), phone, text)

\* buildWhatsAppUrl
buildWhatsAppUrl(baseUrl, phone, text, passthroughParams) ==
  SerializeURL(AddPassthrough(ShapeWhatsAppUrl(ParseURL(baseUrl), phone, text),
                              passthroughParams))

\* buildAndroidFlowUrl
buildAndroidFlowUrl(baseUrl, phone, text, passthroughParams) ==
  SerializeURL(AddPassthrough(SetParam(SetParam(ParseURL(baseUrl), "phone", phone),
                                       "text", text),
                              passthroughParams))

\* isHostAllowed without the membership test: any URL that parses
isHostAllowedAnyHost(url, allowedHosts) == IsValidURL(url)

\* isHostAllowed
isHostAllowed(url, allowedHosts) ==
  IF IsValidURL(url)
    THEN ToLowerCase(ParseURL(url).hostname) \in allowedHosts
    ELSE FALSE

PhoneRequiredError == "Phone number is required but not provided"

HostNotAllowedPrefix == "Redirect to host not allowed: "

\* the phone resolved with ?? in the place of ||
ResolvePhoneNullish(linkConfig, params) ==
  IF Prop(params, "phone") # Undefined THEN Prop(params, "phone")
  ELSE linkConfig.defaultPhone

\* the resolved phone: params.phone || linkConfig.defaultPhone
ResolvePhone(linkConfig, params) == OrElse(Prop(params, "phone"), linkConfig.defaultPhone)

\* the text resolved with ?? in the place of ||
ResolveTextNullish(linkConfig, params) ==
  IF Prop(params, "text") # Undefined THEN Prop(params, "text")[1]
  ELSE IF linkConfig.defaultText # Undefined THEN linkConfig.defaultText[1]
  ELSE ""

\* the resolved text: params.text || linkConfig.defaultText || ''
ResolveText(linkConfig, params) ==
  OrElse(OrElse(Prop(params, "text"), linkConfig.defaultText), Str(""))[1]

\* the base URL the switch on the platform selects
BaseUrlOf(platform, linkConfig) ==
  IF platform = "ios" THEN linkConfig.iosWhatsappBaseUrl
  ELSE IF platform = "android" THEN linkConfig.androidFlowUrl
  ELSE linkConfig.desktopWhatsappBaseUrl

\* the switch on the platform
BuildTarget(platform, linkConfig, phone, text, passthroughParams) ==
  IF platform = "android"
    THEN buildAndroidFlowUrl(BaseUrlOf(platform, linkConfig)[1], phone, text,
                             passthroughParams)
    ELSE buildWhatsAppUrl(BaseUrlOf(platform, linkConfig)[1], phone, text,
                          passthroughParams)

\* whether buildRedirectUrl throws instead of returning: new URL(baseUrl)
\* throws a TypeError for a base URL that is undefined or does not parse
buildRedirectUrlThrows(platform, linkConfig, params) ==
  /\ Truthy(ResolvePhone(linkConfig, params))
  /\ \/ ~IsString(BaseUrlOf(platform, linkConfig))
     \/ ~IsValidURL(BaseUrlOf(platform, linkConfig)[1])

\* the validation that returns the rejected target URL with the failure
ValidateTargetKeepingUrl(targetUrl, allowedHosts) ==
  IF ~isHostAllowed(targetUrl, allowedHosts)
    THEN [url |-> targetUrl, isValid |-> FALSE,
          error |-> Str(HostNotAllowedPrefix \o ParseURL(targetUrl).hostname)]
    ELSE [url |-> targetUrl, isValid |-> TRUE, error |-> Undefined]

\* the validation of the target URL's hostname, and the result
ValidateTarget(targetUrl, allowedHosts) ==
  IF ~isHostAllowed(targetUrl, allowedHosts)
    THEN [url |-> "", isValid |-> FALSE,
          error |-> Str(HostNotAllowedPrefix \o ParseURL(targetUrl).hostname)]
    ELSE [url |-> targetUrl, isValid |-> TRUE, error |-> Undefined]

\* buildRedirectUrl
buildRedirectUrl(platform, linkConfig, params, allowedHosts) ==
  IF ~Truthy(ResolvePhone(linkConfig, params))
    THEN [url |-> "", isValid |-> FALSE, error |-> Str(PhoneRequiredError)]
    ELSE ValidateTarget(BuildTarget(platform, linkConfig,
                                    ResolvePhone(linkConfig, params)[1],
                                    ResolveText(linkConfig, params),
                                    extractPassthroughParams(params)),
                        allowedHosts)

(***************************************************************************)
(* src/lib/isBot.ts and src/lib/platform.ts                                *)
(***************************************************************************)

\* BOT_PATTERNS in list order: each rule is its source in lower case (the
\* rules are case-insensitive) and whether a word boundary \b follows it
BOT_PATTERNS ==
  << <<"linkedinbot", FALSE>>, <<"twitterbot", FALSE>>, <<"facebookexternalhit", FALSE>>,
     <<"facebot", FALSE>>, <<"slackbot", FALSE>>, <<"discordbot", FALSE>>,
     <<"whatsapp", FALSE>>, <<"telegrambot", FALSE>>, <<"viber", FALSE>>,
     <<"skypeuripreview", FALSE>>, <<"pinterest", FALSE>>, <<"redditbot", FALSE>>,
     <<"embedly", FALSE>>,
     <<"googlebot", FALSE>>, <<"bingbot", FALSE>>, <<"baiduspider", FALSE>>,
     <<"yandexbot", FALSE>>, <<"duckduckbot", FALSE>>, <<"sogou", FALSE>>,
     <<"slurp", FALSE>>, <<"ia_archiver", FALSE>>, <<"ahrefsbot", FALSE>>,
     <<"semrushbot", FALSE>>, <<"mj12bot", FALSE>>, <<"dotbot", FALSE>>,
     <<"rogerbot", FALSE>>, <<"petalbot", FALSE>>,
     <<"preview", FALSE>>, <<"crawler", FALSE>>, <<"spider", FALSE>>, <<"bot", TRUE>>,
     <<"applebot", FALSE>>, <<"imessagelinkpreviews", FALSE>> >>

\* the index of the leftmost match of the rule at or after index from, 0
\* without a match: the literal, ignoring case (lower is the text in lower
\* case), and for \b a following character that is not a word character
RECURSIVE RuleIndexFrom(_, _, _, _)
RuleIndexFrom(rule, text, lower, from) ==
  LET i == IndexOf(lower, rule[1], from)
  IN IF i = 0 THEN 0
     ELSE IF rule[2] /\ IsWordChar(Char(text, i + Len(rule[1])))
       THEN RuleIndexFrom(rule, text, lower, i + 1)
     ELSE i

\* the first rule of BOT_PATTERNS, from rule r on, that matches the text, 0
\* when none does
RECURSIVE FirstRule(_, _, _)
FirstRule(text, lower, r) ==
  IF r > Len(BOT_PATTERNS) THEN 0
  ELSE IF RuleIndexFrom(BOT_PATTERNS[r], text, lower, 1) > 0 THEN r
  ELSE FirstRule(text, lower, r + 1)

\* isBot: BOT_PATTERNS.some(pattern => pattern.test(userAgent))
isBot(userAgent) ==
  IF ~Truthy(userAgent) THEN FALSE
  ELSE FirstRule(userAgent[1], ToLowerCase(userAgent[1]), 1) > 0

\* userAgent.match(pattern)[0] for rule r, whose match starts at index i
MatchAt(text, r, i) ==
  IF r = 0 THEN Undefined ELSE Str(SubSeq(text, i, i + Len(BOT_PATTERNS[r][1]) - 1))

\* the match of rule r, 0 for none
MatchOfRule(text, lower, r) ==
  MatchAt(text, r, IF r = 0 THEN 0 ELSE RuleIndexFrom(BOT_PATTERNS[r], text, lower, 1))

\* the match that starts leftmost in the text, whatever the place of its
\* rule in the list
MatchOfLeftmostRule(text, lower) ==
  LET Index(r) == RuleIndexFrom(BOT_PATTERNS[r], text, lower, 1)
      matching == {r \in 1..Len(BOT_PATTERNS) : Index(r) > 0}
  IN IF matching = {} THEN Undefined
     ELSE \* the leftmost, and of two that start together the first listed
          LET r == CHOOSE r \in matching :
                     \A q \in matching :
                       Index(r) < Index(q) \/ (Index(r) = Index(q) /\ r <= q)
          IN MatchAt(text, r, Index(r))

\* the match of the first rule that matches
MatchOfFirstRule(text, lower) == MatchOfRule(text, lower, FirstRule(text, lower, 1))

\* identifyBot: the match of the first rule that matches; null is Undefined
identifyBot(userAgent) ==
  IF ~Truthy(userAgent) THEN Undefined
  ELSE MatchOfFirstRule(userAgent[1], ToLowerCase(userAgent[1]))

\* IOS_REGEX.test(text): /(iPhone|iPad|iPod)/i
IOS_REGEX(text) ==
  \E t \in {"iphone", "ipad", "ipod"} : Includes(ToLowerCase(text), t)

\* ANDROID_REGEX.test(text): /Android/i
ANDROID_REGEX(text) == Includes(ToLowerCase(text), "android")

\* detectPlatform with the Android test before the iOS test
detectPlatformAndroidFirst(userAgent) ==
  IF ~Truthy(userAgent) THEN "desktop"
  ELSE IF ANDROID_REGEX(userAgent[1]) THEN "android"
  ELSE IF IOS_REGEX(userAgent[1]) THEN "ios"
  ELSE "desktop"

\* detectPlatform
detectPlatform(userAgent) ==
  IF ~Truthy(userAgent) THEN "desktop"
  ELSE IF IOS_REGEX(userAgent[1]) THEN "ios"
  ELSE IF ANDROID_REGEX(userAgent[1]) THEN "android"
  ELSE "desktop"

(***************************************************************************)
(* src/lib/preview.ts                                                      *)
(***************************************************************************)

\* the replacement of one character when the map has no entry for the quotes
EscapeCharKeepingQuotes(c) ==
  IF c = "&" THEN "&amp;"
  ELSE IF c = "<" THEN "&lt;"
  ELSE IF c = ">" THEN "&gt;"
  ELSE c

\* the map of escapeHtml: the entity of each of & < > " '
EscapeChar(c) ==
  IF c = "&" THEN "&amp;"
  ELSE IF c = "<" THEN "&lt;"
  ELSE IF c = ">" THEN "&gt;"
  ELSE IF c = "\"" THEN "&quot;"
  ELSE IF c = "'" THEN "&#039;"
  ELSE c

\* escapeHtml: text.replace(/[&<>"']/g, (char) => map[char] || char)
escapeHtml(text) == Concat([i \in 1..Len(text) |-> EscapeChar(Char(text, i))])

\* the path and query of the redirect endpoint for the slug
RedirectPath(slug, queryString) ==
  "/r/" \o slug \o (IF queryString # "" THEN "?" \o queryString ELSE "")

\* the target of the continue button without the _continue marker
ContinueUrlUnmarked(slug, queryString) == RedirectPath(slug, queryString)

\* the target of the continue button
ContinueUrl(slug, queryString) ==
  RedirectPath(slug, queryString) \o (IF queryString # "" THEN "&" ELSE "?") \o "_continue=1"

\* the opening of the continue link, up to its href value
ContinueAnchor == "<a href=\""

\* generatePreviewHtml: the document with its interpolations (the fixed style
\* sheet, icon and white space, which interpolate nothing, are left out)
generatePreviewHtml(slug, linkConfig, queryString, baseUrl) ==
  LET ogTitle == OrElse(linkConfig.ogTitle, Str("Continue to WhatsApp"))[1]
      ogDescription ==
        OrElse(linkConfig.ogDescription, Str("Click to continue to your destination"))[1]
      ogImage == OrElse(linkConfig.ogImage, Str(""))[1]
      fullRedirectUrl == baseUrl \o RedirectPath(slug, queryString)
      continueUrl == ContinueUrl(slug, queryString)
  IN "<!DOCTYPE html><html lang=\"en\"><head>"
       \o "<title>" \o escapeHtml(ogTitle) \o "</title>"
       \o "<meta property=\"og:title\" content=\"" \o escapeHtml(ogTitle) \o "\">"
       \o "<meta property=\"og:description\" content=\"" \o escapeHtml(ogDescription) \o "\">"
       \o "<meta property=\"og:type\" content=\"website\">"
       \o "<meta property=\"og:url\" content=\"" \o escapeHtml(fullRedirectUrl) \o "\">"
       \o (IF ogImage # ""
             THEN "<meta property=\"og:image\" content=\"" \o escapeHtml(ogImage) \o "\">"
             ELSE "")
       \o "<meta name=\"twitter:card\" content=\"summary_large_image\">"
       \o "<meta name=\"twitter:title\" content=\"" \o escapeHtml(ogTitle) \o "\">"
       \o "<meta name=\"twitter:description\" content=\"" \o escapeHtml(ogDescription) \o "\">"
       \o (IF ogImage # ""
             THEN "<meta name=\"twitter:image\" content=\"" \o escapeHtml(ogImage) \o "\">"
             ELSE "")
       \o "</head><body>"
       \o "<h1>" \o escapeHtml(ogTitle) \o "</h1>"
       \o "<p>" \o escapeHtml(ogDescription) \o "</p>"
       \o ContinueAnchor \o escapeHtml(continueUrl)
       \o "\" class=\"continue-btn\" id=\"continueBtn\">Continue</a>"
       \o "<noscript>"
       \o "<h1>" \o escapeHtml(ogTitle) \o "</h1>"
       \o "<p>" \o escapeHtml(ogDescription) \o "</p>"
       \o ContinueAnchor \o escapeHtml(continueUrl)
       \o "\" class=\"continue-btn\">Continue</a>"
       \o "</noscript>"
       \o "<script>document.getElementById('continueBtn')"
       \o ".addEventListener('click', function(e) {});</script>"
       \o "</body></html>"

(***************************************************************************)
(* src/lib/hash.ts                                                         *)
(***************************************************************************)

\* The first 16 hexadecimal digits of SHA-256("branch-redirect-salt:" + ip)
\* for the client addresses of the model
Sha256Prefix ==
  << <<"203.0.113.7", "6aadfa6af143229f">>,
     <<"198.51.100.23", "ed6b0bd19f4feb7f">>,
     <<"127.0.0.1", "15c1571ef2b092db">> >>

\* hashIP without the hash: the address itself
hashIPRaw(ip) ==
  IF ~Truthy(ip) THEN "unknown" ELSE ip[1]

\* hashIP with the default salt
hashIP(ip) ==
  IF ~Truthy(ip) THEN "unknown"
  ELSE Sha256Prefix[CHOOSE i \in 1..Len(Sha256Prefix) : Sha256Prefix[i][1] = ip[1]][2]

(***************************************************************************)
(* src/config.ts                                                           *)
(***************************************************************************)

\* getAllowedHosts: split at commas, trim, lower-case, drop the empty names
getAllowedHosts(hostsString) ==
  LET parts == Split(hostsString, ",")
  IN {ToLowerCase(Trim(parts[i])) : i \in 1..Len(parts)} \ {""}

\* the default of ALLOWED_HOSTS in envSchema
DefaultAllowedHosts == "wa.me,api.whatsapp.com,web.whatsapp.com"

\* loadEnvConfig: envSchema.safeParse(process.env).data; of the environment
\* the model keeps ALLOWED_HOSTS, a string or absent
loadEnvConfig(env) ==
  [ALLOWED_HOSTS |-> IF env.ALLOWED_HOSTS = Undefined THEN DefaultAllowedHosts
                     ELSE env.ALLOWED_HOSTS[1]]

\* loadLinksConfig: the data of links.json; the file of the model holds a
\* configuration the schema accepts, which safeParse returns field by field
loadLinksConfig(file) ==
  [slug \in DOMAIN file |->
     [androidFlowUrl |-> file[slug].androidFlowUrl,
      iosWhatsappBaseUrl |-> file[slug].iosWhatsappBaseUrl,
      desktopWhatsappBaseUrl |-> file[slug].desktopWhatsappBaseUrl,
      defaultPhone |-> file[slug].defaultPhone,
      defaultText |-> file[slug].defaultText,
      ogTitle |-> file[slug].ogTitle,
      ogDescription |-> file[slug].ogDescription,
      ogImage |-> file[slug].ogImage]]

\* the module of config.ts once imported: process.env and links.json as they
\* are, the two singletons null, no loader called yet
Unloaded(env, file) ==
  [env |-> env, file |-> file, envConfig |-> Undefined, linksConfig |-> Undefined,
   loads |-> [env |-> 0, links |-> 0]]

\* getEnvConfig: the module after the call and the value returned; loads
\* counts the calls of each loader since the last resetConfig
getEnvConfig(cfg) ==
  IF cfg.envConfig = Undefined
    THEN [config |-> [cfg EXCEPT !.envConfig = Str(loadEnvConfig(cfg.env)),
                                 !.loads.env = @ + 1],
          value |-> loadEnvConfig(cfg.env)]
    ELSE [config |-> cfg, value |-> cfg.envConfig[1]]

\* getLinksConfig without the test of the singleton: the file is read at
\* every call
getLinksConfigReloading(cfg) ==
  [config |-> [cfg EXCEPT !.linksConfig = Str(loadLinksConfig(cfg.file)),
                          !.loads.links = @ + 1],
   value |-> loadLinksConfig(cfg.file)]

\* getLinksConfig
getLinksConfig(cfg) ==
  IF cfg.linksConfig = Undefined
    THEN [config |-> [cfg EXCEPT !.linksConfig = Str(loadLinksConfig(cfg.file)),
                                 !.loads.links = @ + 1],
          value |-> loadLinksConfig(cfg.file)]
    ELSE [config |-> cfg, value |-> cfg.linksConfig[1]]

\* resetConfig
resetConfig(cfg) ==
  [cfg EXCEPT !.envConfig = Undefined, !.linksConfig = Undefined,
              !.loads = [env |-> 0, links |-> 0]]

\* the module of config.ts after buildServer has read the environment and
\* redirectRoutes has been registered
Started(env, file) ==
  getEnvConfig(getLinksConfig(getEnvConfig(Unloaded(env, file)).config).config).config

(***************************************************************************)
(* The configuration and the requests of the model                         *)
(***************************************************************************)

\* the longest response latency (Date.now() - startTime) the model draws
MaxDurationMs == 1

\* config/links.json: the slugs of the test suite (demo, support) and one more,
\* with the shapes of base URL and the optional fields the builder distinguishes
LinksJson ==
  [demo |->
     [androidFlowUrl |-> Str("https://flow.example.com/android"),
      iosWhatsappBaseUrl |-> Str("https://wa.me/"),
      desktopWhatsappBaseUrl |-> Str("https://web.whatsapp.com/send"),
      defaultPhone |-> Str("919999999999"),
      defaultText |-> Str("Hello from demo"),
      ogTitle |-> Str("Chat with Us on WhatsApp"),
      ogDescription |-> Str("Start a conversation instantly via WhatsApp"),
      ogImage |-> Str("https://example.com/og-image.png?a=1&b=2")],
   support |->
     [androidFlowUrl |-> Str("https://evil.com/x?phone=1"),
      iosWhatsappBaseUrl |-> Str("https://wa.me/919606047104"),
      desktopWhatsappBaseUrl |-> Str("https://API.WhatsApp.com/?phone=111&utm_source=base"),
      defaultPhone |-> Undefined,
      defaultText |-> Undefined,
      ogTitle |-> Str("<script>x</script>"),
      ogDescription |-> Str("Get help from our \"support\" team"),
      ogImage |-> Undefined],
   promo |->
     [androidFlowUrl |-> Str("https://flow.example.com/android?utm_source=base&_continue=0"),
      iosWhatsappBaseUrl |-> Str("https://web.whatsapp.com/sender?text=old"),
      desktopWhatsappBaseUrl |-> Str("https://chat.example.org/start"),
      defaultPhone |-> Str(""),
      defaultText |-> Str("Hi there"),
      ogTitle |-> Undefined,
      ogDescription |-> Undefined,
      ogImage |-> Undefined]]

\* the values of ALLOWED_HOSTS: the default of the environment schema, and the
\* test suite's list written with blanks, capitals and an empty item
AllowedHostsStrings ==
  {"wa.me,api.whatsapp.com,web.whatsapp.com",
   " WA.me , api.whatsapp.com,web.whatsapp.com,,flow.example.com"}

\* the names every JavaScript object inherits from Object.prototype
ObjectPrototypeKeys ==
  {"constructor", "toString", "valueOf", "hasOwnProperty", "__proto__"}

\* an inherited member read as a LinkEntry: a function, none of whose
\* LinkEntry fields is defined
InheritedMember ==
  [androidFlowUrl |-> Undefined,
   iosWhatsappBaseUrl |-> Undefined,
   desktopWhatsappBaseUrl |-> Undefined,
   defaultPhone |-> Undefined,
   defaultText |-> Undefined,
   ogTitle |-> Undefined,
   ogDescription |-> Undefined,
   ogImage |-> Undefined]

\* linksConfig[slug]: an own property, else a member inherited from
\* Object.prototype (the configuration is a plain object), else undefined
LookupLink(config, slug) ==
  IF slug \in DOMAIN config THEN Str(config[slug])
  ELSE IF slug \in ObjectPrototypeKeys THEN Str(InheritedMember)
  ELSE Undefined

\* the slugs requested: the configured ones, unknown ones, and a name that
\* every object inherits
Slugs == {"demo", "support", "promo", "nonexistent", "constructor"}

\* the User-Agent headers: none, empty, the three platforms, crawlers, a
\* crawler naming two platforms, and a browser whose name contains bot
UserAgents ==
  {Undefined,
   Str(""),
   Str("Mozilla/5.0 (iPhone; CPU iPhone OS 16_0 like Mac OS X)"),
   Str("Mozilla/5.0 (Linux; Android 13; SM-S908B)"),
   Str("Mozilla/5.0 (Windows NT 10.0; Win64; x64)"),
   Str("Mozilla/5.0 (compatible; Googlebot/2.1; +http://www.google.com/bot.html)"),
   Str("Twitterbot/1.0 (iPad; Android)"),
   Str("Mozilla/5.0 (Linux; Android 9; CUBOT_X19) robots")}

\* the query objects (request.query): ordered <<key, value>> entries
Queries ==
  {<<>>,
   << <<"phone", "918888888888">> >>,
   << <<"text", "Custom message">> >>,
   << <<"phone", "">>, <<"text", "">>, <<"utm_term", "">> >>,
   << <<"_continue", "1">> >>,
   << <<"_continue", "0">>, <<"utm_source", "test">> >>,
   << <<"_continue", "">> >>,
   << <<"_continue", "true">>, <<"phone", "4915112345678">> >>,
   << <<"utm_source", "test">>, <<"utm_campaign", "demo">> >>,
   << <<"utm_source", "fb">>, <<"_continue", "1">>, <<"text", "Hi & bye?">>,
      <<"phone", "918888888888">> >>,
   << <<"ref", "a&b=c d">>, <<"text", "<b>'x'</b>">> >>,
   << <<"_Continue", "1">>, <<"phone", "12 3?#">> >>}

\* the clients: the address (request.ip) and the other headers the routes read
Clients ==
  {[ip |-> Undefined, referer |-> Undefined, xForwardedProto |-> Undefined,
    xForwardedHost |-> Undefined, host |-> Str("localhost:3000")],
   [ip |-> Str("203.0.113.7"), referer |-> Str("https://facebook.com/"),
    xForwardedProto |-> Str("https"), xForwardedHost |-> Str("r.example.com"),
    host |-> Str("10.0.0.5:3000")]}

\* the routes of src/routes/redirect.ts
Routes == {"/r/:slug", "/preview/:slug"}

(***************************************************************************)
(* The server: src/routes/redirect.ts behind src/server.ts                 *)
(***************************************************************************)

VARIABLES
  configModule,  \* config.ts: the environment, links.json and the two singletons
  linksConfig,   \* redirectRoutes: the links configuration captured at registration
  allowedHosts,  \* redirectRoutes: the allow-list captured at registration
  pc,            \* "idle", "pending" (a request was received), "replied"
  request,       \* the request being handled
  reply,         \* the response sent for it
  log,           \* the records written to request.log while handling it
  call,          \* a direct call of a function of src/lib/urlBuilder.ts
  ret            \* what that call returned

vars == <<configModule, linksConfig, allowedHosts, pc, request, reply, log, call, ret>>

NoRequest == [route |-> "none"]
NoReply == [status |-> 0]
NoCall == [fn |-> "none"]
NoRet == [returned |-> FALSE]

\* reply.send(object): a JSON body
Json(status, payload) ==
  [status |-> status,
   headers |-> [contentType |-> Str("application/json; charset=utf-8"),
                cacheControl |-> Undefined, location |-> Undefined,
                pragma |-> Undefined, expires |-> Undefined],
   body |-> [type |-> "json", json |-> payload]]

\* reply.status(200).header('Content-Type', ...).header('Cache-Control', ...).send(html)
Html(cacheControl, html) ==
  [status |-> 200,
   headers |-> [contentType |-> Str("text/html; charset=utf-8"),
                cacheControl |-> Str(cacheControl), location |-> Undefined,
                pragma |-> Undefined, expires |-> Undefined],
   body |-> [type |-> "html", html |-> html]]

\* the redirect reply without its three cache headers
RedirectCacheable(url) ==
  [status |-> 302,
   headers |-> [contentType |-> Undefined, cacheControl |-> Undefined,
                location |-> Str(url), pragma |-> Undefined, expires |-> Undefined],
   body |-> [type |-> "empty"]]

\* reply.status(302).header('Location', url)...send()
Redirect(url) ==
  [status |-> 302,
   headers |-> [contentType |-> Undefined,
                cacheControl |-> Str("no-cache, no-store, must-revalidate"),
                location |-> Str(url), pragma |-> Str("no-cache"), expires |-> Str("0")],
   body |-> [type |-> "empty"]]

\* querySchema.safeParse(request.query).data: the keys of the schema first,
\* then the passed-through keys, each in the order of the query
QuerySchemaParse(query) ==
  LET Shape == <<"phone", "text", "_continue">>
      declared == [i \in 1..Len(Shape) |->
                     IF Has(query, Shape[i]) THEN <<<<Shape[i], Get(query, Shape[i])[1]>>>>
                     ELSE <<>>]
      rest == SelectSeq(query, LAMBDA e : e[1] \notin {"phone", "text", "_continue"})
  IN declared[1] \o declared[2] \o declared[3] \o rest

\* redirectParams without the reserved key _continue
RedirectParamsOfWithoutContinue(queryParams) ==
  [i \in 1..Len(SelectSeq(queryParams, LAMBDA e : e[1] # "_continue")) |->
     <<SelectSeq(queryParams, LAMBDA e : e[1] # "_continue")[i][1],
       Str(SelectSeq(queryParams, LAMBDA e : e[1] # "_continue")[i][2])>>]

\* redirectParams: every string value of queryParams, undefined for another
RedirectParamsOf(queryParams) ==
  [i \in 1..Len(queryParams) |-> <<queryParams[i][1], Str(queryParams[i][2])>>]

\* the query string of the preview when no key is filtered out
StripContinueKeepingAll(query) == SerializeQuery(query)

\* new URLSearchParams(Object.entries(request.query).filter(key !== '_continue')).toString()
StripContinue(query) ==
  SerializeQuery(SelectSeq(query, LAMBDA e : e[1] # "_continue"))

\* `${protocol}://${host}` from the forwarding headers
BaseUrlOfRequest(req) ==
  OrElse(req.headers.xForwardedProto, Str("http"))[1] \o "://"
    \o OrElse(req.headers.xForwardedHost, OrElse(req.headers.host, Str("localhost")))[1]

\* isBotRequest when any _continue parameter, whatever its value, counts
\* as following a continue link
IsBotRequestAnyContinue(userAgent, queryParams) ==
  isBot(userAgent) /\ ~Has(queryParams, "_continue")

\* isBotRequest: a crawler that is not following a continue link
IsBotRequest(userAgent, queryParams) ==
  isBot(userAgent) /\ Get(queryParams, "_continue") # Str("1")

\* records logged whatever the latency the handler measures
Always(records) == [durationMs \in 0..MaxDurationMs |-> records]

\* the error handler of src/server.ts for an exception thrown by a route
\* (NODE_ENV production)
ErrorHandler(req) ==
  [reply |-> Json(500, [error |-> "Internal Server Error",
                        message |-> "An unexpected error occurred"]),
   log |-> Always(<<[level |-> "error", err |-> "TypeError: Invalid URL",
                     url |-> req.route]>>)]

\* the end of the handler when every failure of buildRedirectUrl is
\* answered as a missing phone
RedirectReplyAlwaysBadRequest(req, platform, result) ==
  IF ~result.isValid
    THEN [reply |-> Json(400, [error |-> "Phone number is required",
                               message |-> "Please provide a phone number via the \"phone\" query parameter"]),
          log |-> Always(<<[level |-> "error", event |-> "redirect_error",
                            slug |-> req.slug, platform |-> platform,
                            error |-> result.error, hashedIp |-> hashIP(req.ip)]>>)]
    ELSE [reply |-> Redirect(result.url),
          log |-> [durationMs \in 0..MaxDurationMs |->
                     <<[level |-> "info", event |-> "redirect", slug |-> req.slug,
                        platform |-> platform, referer |-> req.headers.referer,
                        hashedIp |-> hashIP(req.ip), durationMs |-> durationMs,
                        targetHost |-> ParseURL(result.url).hostname]>>]]

\* the end of the handler of GET /r/:slug, from the result of buildRedirectUrl
\* on: the error response, or the redirect and its record
RedirectReply(req, platform, result) ==
  IF ~result.isValid
    THEN [reply |->
            IF Includes(result.error[1], "Phone number is required")
              THEN Json(400, [error |-> "Phone number is required",
                              message |-> "Please provide a phone number via the \"phone\" query parameter"])
              ELSE Json(500, [error |-> "Failed to build redirect URL",
                              message |-> result.error[1]]),
          log |-> Always(<<[level |-> "error", event |-> "redirect_error",
                            slug |-> req.slug, platform |-> platform,
                            error |-> result.error, hashedIp |-> hashIP(req.ip)]>>)]
    ELSE [reply |-> Redirect(result.url),
          log |-> [durationMs \in 0..MaxDurationMs |->
                     <<[level |-> "info", event |-> "redirect", slug |-> req.slug,
                        platform |-> platform, referer |-> req.headers.referer,
                        hashedIp |-> hashIP(req.ip), durationMs |-> durationMs,
                        targetHost |-> ParseURL(result.url).hostname]>>]]

\* the redirect path of the handler: the platform is known, the URL is built;
\* an exception buildRedirectUrl throws reaches the error handler
RedirectForPlatform(req, platform, linkConfig, redirectParams, hosts) ==
  IF buildRedirectUrlThrows(platform, linkConfig, redirectParams)
    THEN ErrorHandler(req)
    ELSE RedirectReply(req, platform,
                       buildRedirectUrl(platform, linkConfig, redirectParams, hosts))

\* the preview path without its request.log.info call
BotPreviewWithoutRecord(req, linkConfig) ==
  [reply |-> Html("no-cache, no-store, must-revalidate",
                  generatePreviewHtml(req.slug, linkConfig, StripContinue(req.query),
                                      BaseUrlOfRequest(req))),
   log |-> Always(<<>>)]

\* the preview path of the handler
BotPreview(req, linkConfig) ==
  [reply |-> Html("no-cache, no-store, must-revalidate",
                  generatePreviewHtml(req.slug, linkConfig, StripContinue(req.query),
                                      BaseUrlOfRequest(req))),
   log |-> Always(<<[level |-> "info", event |-> "bot_preview", slug |-> req.slug,
                     bot |-> identifyBot(req.headers.userAgent),
                     userAgent |-> req.headers.userAgent,
                     hashedIp |-> hashIP(req.ip)]>>)]

\* the handler building the destination before it looks at the bot check: a
\* crawler is shown the preview only when the destination is valid
RedirectForLinkBuildingFirst(req, queryParams, linkConfig, hosts) ==
  IF linkConfig = Undefined
    THEN [reply |-> Json(404, [error |-> "Link not found", slug |-> req.slug]),
          log |-> Always(<<[level |-> "warn", msg |-> "Slug not found",
                            slug |-> req.slug]>>)]
  ELSE IF /\ IsBotRequest(req.headers.userAgent, queryParams)
          /\ ~buildRedirectUrlThrows(detectPlatform(req.headers.userAgent), linkConfig[1],
                                     RedirectParamsOf(queryParams))
          /\ buildRedirectUrl(detectPlatform(req.headers.userAgent), linkConfig[1],
                              RedirectParamsOf(queryParams), hosts).isValid
    THEN BotPreview(req, linkConfig[1])
  ELSE RedirectForPlatform(req, detectPlatform(req.headers.userAgent), linkConfig[1],
                           RedirectParamsOf(queryParams), hosts)

\* the handler once the query is parsed and the slug looked up
RedirectForLink(req, queryParams, linkConfig, hosts) ==
  IF linkConfig = Undefined
    THEN [reply |-> Json(404, [error |-> "Link not found", slug |-> req.slug]),
          log |-> Always(<<[level |-> "warn", msg |-> "Slug not found",
                            slug |-> req.slug]>>)]
  ELSE IF IsBotRequest(req.headers.userAgent, queryParams)
    THEN BotPreview(req, linkConfig[1])
  ELSE RedirectForPlatform(req, detectPlatform(req.headers.userAgent), linkConfig[1],
                           RedirectParamsOf(queryParams), hosts)

\* the handler of GET /r/:slug: the response, and the records logged as a
\* function of the latency Date.now() - startTime the handler measures
RedirectHandler(req, config, hosts) ==
  IF Len(req.slug) < 1
    THEN [reply |-> Json(400, [error |-> "Invalid slug"]), log |-> Always(<<>>)]
    ELSE RedirectForLink(req, QuerySchemaParse(req.query), LookupLink(config, req.slug),
                         hosts)

\* the handler of GET /preview/:slug
PreviewHandler(req, config) ==
  IF Len(req.slug) < 1
    THEN [reply |-> Json(400, [error |-> "Invalid slug"]), log |-> Always(<<>>)]
  ELSE IF LookupLink(config, req.slug) = Undefined
    THEN [reply |-> Json(404, [error |-> "Link not found", slug |-> req.slug]),
          log |-> Always(<<>>)]
  ELSE [reply |-> Html("public, max-age=300",
                       generatePreviewHtml(req.slug, LookupLink(config, req.slug)[1],
                                           SerializeQuery(req.query),
                                           BaseUrlOfRequest(req))),
        log |-> Always(<<[level |-> "info", event |-> "preview_view", slug |-> req.slug,
                          hashedIp |-> hashIP(req.ip)]>>)]

\* a request as the router hands it to a route
MakeRequest(route, slug, query, userAgent, client, origin) ==
  [route |-> route, slug |-> slug, query |-> query, ip |-> client.ip,
   headers |-> [userAgent |-> userAgent, referer |-> client.referer,
                xForwardedProto |-> client.xForwardedProto,
                xForwardedHost |-> client.xForwardedHost, host |-> client.host],
   origin |-> origin]

\* the client of a request
ClientOf(req) ==
  [ip |-> req.ip, referer |-> req.headers.referer,
   xForwardedProto |-> req.headers.xForwardedProto,
   xForwardedHost |-> req.headers.xForwardedHost, host |-> req.headers.host]

(***************************************************************************)
(* The client that follows the continue link of a preview                  *)
(***************************************************************************)

\* the entities escapeHtml writes, each with the character it stands for
Entities ==
  << <<"&amp;", "&">>, <<"&lt;", "<">>, <<"&gt;", ">">>, <<"&quot;", "\"">>,
     <<"&#039;", "'">> >>

\* the entity that starts at index i of the text, 0 when none does
EntityAt(text, i) ==
  IF \E e \in 1..Len(Entities) : StartsWithAt(text, Entities[e][1], i)
    THEN CHOOSE e \in 1..Len(Entities) : StartsWithAt(text, Entities[e][1], i)
    ELSE 0

\* whether index i lies inside an entity that starts before it
InsideEntity(text, i) ==
  \E j \in (i - 5)..(i - 1) :
    EntityAt(text, j) > 0 /\ i < j + Len(Entities[EntityAt(text, j)][1])

\* the text of an HTML attribute value: the entities of escapeHtml decoded
HtmlUnescapeAt(text, i) ==
  IF EntityAt(text, i) > 0 THEN Entities[EntityAt(text, i)][2]
  ELSE IF InsideEntity(text, i) THEN ""
  ELSE Char(text, i)

HtmlUnescape(text) == Concat([i \in 1..Len(text) |-> HtmlUnescapeAt(text, i)])

\* the href of the continue link of a preview document
ContinueHref(html) ==
  LET start == IndexOf(html, ContinueAnchor, 1) + Len(ContinueAnchor)
      end == IndexOf(html, "\"", start)
  IN HtmlUnescape(SubSeq(html, start, end - 1))

\* the request target /r/<slug>?<query> as the router parses it: the fragment
\* is not sent, the slug is the path segment, the query is form-decoded
TargetSlug(target) ==
  LET h == IndexOf(target, "#", 1)
      sent == IF h = 0 THEN target ELSE SubSeq(target, 1, h - 1)
      q == IndexOf(sent, "?", 1)
      path == IF q = 0 THEN sent ELSE SubSeq(sent, 1, q - 1)
  IN From(path, Len("/r/") + 1)

TargetQuery(target) ==
  LET h == IndexOf(target, "#", 1)
      sent == IF h = 0 THEN target ELSE SubSeq(target, 1, h - 1)
      q == IndexOf(sent, "?", 1)
  IN IF q = 0 THEN <<>> ELSE ParseQuery(From(sent, q + 1))

(***************************************************************************)
(* Actions                                                                 *)
(***************************************************************************)

\* a request arrives at one of the two routes
Receive ==
  /\ pc = "idle"
  /\ \E route \in Routes, slug \in Slugs, query \in Queries,
        userAgent \in UserAgents, client \in Clients :
       request' = MakeRequest(route, slug, query, userAgent, client, "direct")
  /\ pc' = "pending"
  /\ UNCHANGED <<configModule, linksConfig, allowedHosts, reply, log, call, ret>>

\* GET /r/:slug with bot patterns that carry lastIndex from one test to the
\* next: after a request that matched, the next request is not seen as a bot
HandleRedirectStickyPattern ==
  /\ pc = "pending"
  /\ request.route = "/r/:slug"
  /\ \E out \in {IF ret.returned /\ LookupLink(linksConfig, request.slug) # Undefined
                   THEN RedirectForPlatform(request,
                                            detectPlatform(request.headers.userAgent),
                                            LookupLink(linksConfig, request.slug)[1],
                                            RedirectParamsOf(QuerySchemaParse(request.query)),
                                            allowedHosts)
                   ELSE RedirectHandler(request, linksConfig, allowedHosts)} :
       /\ reply' = out.reply
       /\ \E durationMs \in 0..MaxDurationMs : log' = out.log[durationMs]
  /\ ret' = IF ~ret.returned /\ isBot(request.headers.userAgent)
              THEN [returned |-> TRUE, value |-> TRUE] ELSE NoRet
  /\ pc' = "replied"
  /\ UNCHANGED <<configModule, linksConfig, allowedHosts, request, call>>

\* GET /r/:slug runs to its response
HandleRedirect ==
  /\ pc = "pending"
  /\ request.route = "/r/:slug"
  /\ \E out \in {RedirectHandler(request, linksConfig, allowedHosts)} :
       /\ reply' = out.reply
       /\ \E durationMs \in 0..MaxDurationMs : log' = out.log[durationMs]
  /\ pc' = "replied"
  /\ UNCHANGED <<configModule, linksConfig, allowedHosts, request, call, ret>>

\* GET /preview/:slug runs to its response
HandlePreview ==
  /\ pc = "pending"
  /\ request.route = "/preview/:slug"
  /\ \E out \in {PreviewHandler(request, linksConfig)} :
       /\ reply' = out.reply
       /\ \E durationMs \in 0..MaxDurationMs : log' = out.log[durationMs]
  /\ pc' = "replied"
  /\ UNCHANGED <<configModule, linksConfig, allowedHosts, request, call, ret>>

\* a client that received the bot preview of GET /r/:slug follows its
\* continue link, with any User-Agent
FollowContinue ==
  /\ pc = "replied"
  /\ request.route = "/r/:slug"
  /\ reply.status = 200
  /\ reply.body.type = "html"
  /\ \E userAgent \in UserAgents, target \in {ContinueHref(reply.body.html)} :
       request' = MakeRequest("/r/:slug", TargetSlug(target), TargetQuery(target),
                              userAgent, ClientOf(request), "continue")
  /\ pc' = "pending"
  /\ reply' = NoReply
  /\ log' = <<>>
  /\ UNCHANGED <<configModule, linksConfig, allowedHosts, call, ret>>

\* the exchange is over
Close ==
  /\ pc = "replied"
  /\ pc' = "idle"
  /\ request' = NoRequest
  /\ reply' = NoReply
  /\ log' = <<>>
  /\ UNCHANGED <<configModule, linksConfig, allowedHosts, call, ret>>

\* after redirectRoutes has been registered, before the first request
Init ==
  /\ linksConfig = LinksJson
  /\ \E hostsString \in AllowedHostsStrings :
       /\ configModule = Started([ALLOWED_HOSTS |-> Str(hostsString)], LinksJson)
       /\ allowedHosts = getAllowedHosts(hostsString)
  /\ pc = "idle"
  /\ request = NoRequest
  /\ reply = NoReply
  /\ log = <<>>
  /\ call = NoCall
  /\ ret = NoRet

Next ==
  \/ Receive
  \/ HandleRedirect
  \/ HandlePreview
  \/ FollowContinue
  \/ Close

Spec == Init /\ [][Next]_vars

(***************************************************************************)
(* Direct calls of the functions of src/lib/urlBuilder.ts                  *)
(***************************************************************************)

\* the optional phone and text of the link entries and of the parameters
OptionalPhones == {Undefined, Str(""), Str("919999999999")}
OptionalTexts == {Undefined, Str(""), Str("Hello World")}

\* link entries: those of LinksJson with every choice of defaultPhone and
\* defaultText
LinkEntries ==
  {[LinksJson[slug] EXCEPT !.defaultPhone = phone, !.defaultText = text] :
     slug \in DOMAIN LinksJson, phone \in OptionalPhones, text \in OptionalTexts}

\* parameter objects, with undefined and empty values
ParamObjects ==
  {<<>>,
   << <<"phone", Str("918888888888")>> >>,
   << <<"phone", Str("")>>, <<"utm_source", Str("test")>> >>,
   << <<"text", Str("Custom message")>>, <<"utm_term", Str("")>> >>,
   << <<"text", Str("")>>, <<"phone", Undefined>> >>,
   << <<"utm_source", Str("fb")>>, <<"text", Str("Hi & bye?")>>,
      <<"phone", Str("12 3?#")>>, <<"custom", Undefined>>, <<"Phone", Str("1")>> >>,
   << <<"phone", Str("")>>, <<"text", Str("")>>, <<"_continue", Str("1")>>,
      <<"text2", Str("x y")>>, <<"utm_campaign", Str("demo")>> >>}

\* allow-lists
AllowLists == {getAllowedHosts(hostsString) : hostsString \in AllowedHostsStrings}

\* base URLs of the three WhatsApp hosts and of another host, with the
\* paths and queries the shaping distinguishes
WhatsAppBases ==
  {"https://wa.me", "https://wa.me/", "https://wa.me/919606047104",
   "https://WA.ME/919606047104?text=old&phone=5", "https://wa.me/123abc",
   "https://wa.me/message/1ABC", "https://wa.me/message/ABC?utm_source=base",
   "https://api.whatsapp.com/", "https://api.whatsapp.com/send",
   "https://API.WhatsApp.com/?phone=111&text=old&phone=222",
   "https://web.whatsapp.com/sender?text=old&utm_source=base&text=older",
   "https://web.whatsapp.com/v2/send/now", "https://web.whatsapp.com/other",
   "https://chat.example.org/start?phone=0"}

\* base URLs of the Android flow
AndroidBases ==
  {"https://flow.example.com/android",
   "https://flow.example.com/android?utm_source=base&phone=000&text=old"}

Phones == {"919999999999", "12 3?#"}
Texts == {"", "Hello World", "Hi & bye?\n<3", "Olé: 5€/h!"}

\* passthrough parameters, as extractPassthroughParams returns them
PassthroughObjects ==
  {extractPassthroughParams(params) : params \in ParamObjects}

\* the User-Agent values the classifiers are called with: those of the
\* requests, the platform names in other cases, and crawler names placed so
\* that list order and text order differ
ClassifierUserAgents ==
  UserAgents \cup
  {Str("Mozilla/5.0 (IPAD; CPU OS 16_0 like Mac OS X) android"),
   Str("Mozilla/5.0 (Linux; ANDROID 13; Pixel 7)"),
   Str("Mozilla/5.0 (iPod touch; CPU iPhone OS 15_0 like Mac OS X)"),
   Str("MyCrawler/1.0 (like Twitterbot; Android 12)"),
   Str("Applebot/0.1"),
   Str("WhatsApp/2.23.20 A"),
   Str("Mozilla/5.0 (X11; Linux x86_64) Botany Robots"),
   Str("facebookexternalhit/1.1 Facebot Spider")}

\* the calls of the model
LibCalls ==
  {[fn |-> "buildRedirectUrl", platform |-> platform, linkConfig |-> linkConfig,
    params |-> params, allowedHosts |-> hosts] :
     platform \in {"ios", "android", "desktop"}, linkConfig \in LinkEntries,
     params \in ParamObjects, hosts \in AllowLists}
  \cup
  {[fn |-> "buildWhatsAppUrl", baseUrl |-> baseUrl, phone |-> phone, text |-> text,
    passthroughParams |-> passthrough] :
     baseUrl \in WhatsAppBases, phone \in Phones, text \in Texts,
     passthrough \in PassthroughObjects}
  \cup
  {[fn |-> "buildAndroidFlowUrl", baseUrl |-> baseUrl, phone |-> phone, text |-> text,
    passthroughParams |-> passthrough] :
     baseUrl \in AndroidBases, phone \in Phones, text \in Texts,
     passthrough \in PassthroughObjects}
  \cup
  {[fn |-> "extractPassthroughParams", params |-> params] : params \in ParamObjects}
  \cup
  {[fn |-> fn, userAgent |-> userAgent] :
     fn \in {"detectPlatform", "isBot", "identifyBot"},
     userAgent \in ClassifierUserAgents}

Return(value) == [returned |-> TRUE, value |-> value]

CallBuildRedirectUrl ==
  /\ call.fn = "buildRedirectUrl"
  /\ ~ret.returned
  /\ ret' = Return(buildRedirectUrl(call.platform, call.linkConfig, call.params,
                                    call.allowedHosts))
  /\ UNCHANGED <<configModule, linksConfig, allowedHosts, pc, request, reply, log, call>>

CallBuildWhatsAppUrl ==
  /\ call.fn = "buildWhatsAppUrl"
  /\ ~ret.returned
  /\ ret' = Return(buildWhatsAppUrl(call.baseUrl, call.phone, call.text,
                                    call.passthroughParams))
  /\ UNCHANGED <<configModule, linksConfig, allowedHosts, pc, request, reply, log, call>>

CallBuildAndroidFlowUrl ==
  /\ call.fn = "buildAndroidFlowUrl"
  /\ ~ret.returned
  /\ ret' = Return(buildAndroidFlowUrl(call.baseUrl, call.phone, call.text,
                                       call.passthroughParams))
  /\ UNCHANGED <<configModule, linksConfig, allowedHosts, pc, request, reply, log, call>>

CallExtractPassthroughParams ==
  /\ call.fn = "extractPassthroughParams"
  /\ ~ret.returned
  /\ ret' = Return(extractPassthroughParams(call.params))
  /\ UNCHANGED <<configModule, linksConfig, allowedHosts, pc, request, reply, log, call>>

CallDetectPlatform ==
  /\ call.fn = "detectPlatform"
  /\ ~ret.returned
  /\ ret' = Return(detectPlatform(call.userAgent))
  /\ UNCHANGED <<configModule, linksConfig, allowedHosts, pc, request, reply, log, call>>

CallIsBot ==
  /\ call.fn = "isBot"
  /\ ~ret.returned
  /\ ret' = Return(isBot(call.userAgent))
  /\ UNCHANGED <<configModule, linksConfig, allowedHosts, pc, request, reply, log, call>>

CallIdentifyBot ==
  /\ call.fn = "identifyBot"
  /\ ~ret.returned
  /\ ret' = Return(identifyBot(call.userAgent))
  /\ UNCHANGED <<configModule, linksConfig, allowedHosts, pc, request, reply, log, call>>

\* a function of the library is about to be called
InitLib ==
  /\ configModule = Unloaded([ALLOWED_HOSTS |-> Undefined], LinksJson)
  /\ linksConfig = LinksJson
  /\ allowedHosts = {}
  /\ pc = "idle"
  /\ request = NoRequest
  /\ reply = NoReply
  /\ log = <<>>
  /\ call \in LibCalls
  /\ ret = NoRet

NextLib ==
  \/ CallBuildRedirectUrl
  \/ CallBuildWhatsAppUrl
  \/ CallBuildAndroidFlowUrl
  \/ CallExtractPassthroughParams
  \/ CallDetectPlatform
  \/ CallIsBot
  \/ CallIdentifyBot

SpecLib == InitLib /\ [][NextLib]_vars

(***************************************************************************)
(* Properties of the server (Spec)                                         *)
(***************************************************************************)

\* C1: a 302 of GET /r/:slug carries a Location whose lower-cased hostname is
\* in allowedHosts; a build that fails on the host is answered with the
\* message "Redirect to host not allowed: " followed by the hostname of the
\* platform's base URL, and that hostname is not in allowedHosts
NoOpenRedirect ==
  (pc = "replied" /\ request.route = "/r/:slug") =>
    /\ reply.status = 302 =>
         /\ IsString(reply.headers.location)
         /\ IsValidURL(reply.headers.location[1])
         /\ ToLowerCase(ParseURL(reply.headers.location[1]).hostname) \in allowedHosts
    /\ (reply.status = 500 /\ reply.body.json.error = "Failed to build redirect URL") =>
         LET platform == detectPlatform(request.headers.userAgent)
             base == BaseUrlOf(platform, linksConfig[request.slug])[1]
             hostname == ParseURL(base).hostname
         IN /\ reply.body.json.message = HostNotAllowedPrefix \o hostname
            /\ hostname \notin allowedHosts

\* a 302 whose base URL writes the host in capitals
NoOpenRedirectWitness ==
  /\ pc = "replied"
  /\ request.route = "/r/:slug"
  /\ request.slug = "support"
  /\ reply.status = 302
  /\ ParseURL(reply.headers.location[1]).hostname = "api.whatsapp.com"

ContinueNeverPreviews ==
  (pc = "replied" /\ request.origin = "continue") =>
    /\ ~(reply.status = 200 /\ reply.body.type = "html")
    /\ reply.status \in {302, 400, 404, 500}

\* a bot followed the continue link of its preview and was redirected
ContinueNeverPreviewsWitness ==
  /\ pc = "replied"
  /\ request.origin = "continue"
  /\ isBot(request.headers.userAgent)
  /\ Has(request.query, "utm_source")
  /\ reply.status = 302

\* C4: a slug that is not a key of linksConfig is answered by GET /r/:slug
\* with 404 and the JSON body {error: "Link not found", slug}, whatever the
\* User-Agent and the query
UnknownSlugNotFound ==
  (pc = "replied" /\ request.route = "/r/:slug" /\ request.slug \notin DOMAIN linksConfig) =>
    /\ reply.status = 404
    /\ reply.body = [type |-> "json",
                     json |-> [error |-> "Link not found", slug |-> request.slug]]

(***************************************************************************)
(* Properties of the URL builder (SpecLib)                                 *)
(***************************************************************************)

\* C5, as stated: the resolved phone is params.phone whenever it is present,
\* the empty string included, else defaultPhone; the build fails with the
\* phone-required error exactly when both are absent
PhoneIsParamElseDefault ==
  (ret.returned /\ call.fn = "buildRedirectUrl") =>
    LET given == Prop(call.params, "phone")
        expected == IF given # Undefined THEN given ELSE call.linkConfig.defaultPhone
        base == ParseURL(BaseUrlOf(call.platform, call.linkConfig)[1])
        query == call.platform = "android" \/ base.hostname # "wa.me"
    IN /\ (ret.value.error = Str(PhoneRequiredError)) <=> (expected = Undefined)
       /\ (ret.value.isValid /\ query) =>
            Get(ParseURL(ret.value.url).searchParams, "phone") = expected
       /\ (ret.value.isValid /\ ~query /\ ~MatchesSlashDigits(base.pathname)) =>
            ParseURL(ret.value.url).pathname = "/" \o PathEncode(expected[1])

\* C5, amended: the resolved phone is params.phone when that is a non-empty
\* string, else defaultPhone; the build fails with the phone-required error
\* exactly when neither is a non-empty string
PhoneIsNonEmptyParamElseDefault ==
  (ret.returned /\ call.fn = "buildRedirectUrl") =>
    LET given == Prop(call.params, "phone")
        expected == IF given # Undefined /\ given # Str("") THEN given
                    ELSE call.linkConfig.defaultPhone
        base == ParseURL(BaseUrlOf(call.platform, call.linkConfig)[1])
        query == call.platform = "android" \/ base.hostname # "wa.me"
    IN /\ (ret.value.error = Str(PhoneRequiredError))
            <=> (expected = Undefined \/ expected = Str(""))
       /\ (ret.value.isValid /\ query) =>
            Get(ParseURL(ret.value.url).searchParams, "phone") = expected
       /\ (ret.value.isValid /\ ~query /\ ~MatchesSlashDigits(base.pathname)) =>
            ParseURL(ret.value.url).pathname = "/" \o PathEncode(expected[1])

\* an empty params.phone with a default phone: the default is the phone of
\* the destination
PhoneIsNonEmptyParamElseDefaultWitness ==
  /\ ret.returned
  /\ call.fn = "buildRedirectUrl"
  /\ Prop(call.params, "phone") = Str("")
  /\ call.linkConfig.defaultPhone = Str("919999999999")
  /\ ret.value.isValid
  /\ Get(ParseURL(ret.value.url).searchParams, "phone") = Str("919999999999")

\* C6: a non-empty params.phone is the phone the destination carries: the
\* path /<phone> of a wa.me URL, the phone query parameter of another
CallerPhoneOverrides ==
  (ret.returned /\ call.fn = "buildRedirectUrl" /\ ret.value.isValid
     /\ Truthy(Prop(call.params, "phone"))) =>
    LET phone == Prop(call.params, "phone")[1]
        url == ParseURL(ret.value.url)
    IN IF url.hostname = "wa.me" /\ call.platform # "android"
         THEN url.pathname = "/" \o PathEncode(phone)
         ELSE GetAll(url.searchParams, "phone") = <<phone>>

\* C7, as stated: the resolved text is params.text whenever it is present,
\* the empty string included, else defaultText, else the empty string; no
\* build fails for its text
TextIsParamElseDefault ==
  (ret.returned /\ call.fn = "buildRedirectUrl") =>
    LET given == Prop(call.params, "text")
        default == call.linkConfig.defaultText
        expected == IF given # Undefined THEN given
                    ELSE IF default # Undefined THEN default
                    ELSE Str("")
    IN /\ ret.value.isValid =>
            GetAll(ParseURL(ret.value.url).searchParams, "text") = expected
       /\ ~ret.value.isValid =>
            \/ ret.value.error = Str(PhoneRequiredError)
            \/ StartsWithAt(ret.value.error[1], HostNotAllowedPrefix, 1)

\* C7, amended: the resolved text is params.text when that is a non-empty
\* string, else defaultText when that is a non-empty string, else the empty
\* string; no build fails for its text
TextIsNonEmptyParamElseDefault ==
  (ret.returned /\ call.fn = "buildRedirectUrl") =>
    LET given == Prop(call.params, "text")
        default == call.linkConfig.defaultText
        expected == IF given # Undefined /\ given # Str("") THEN given
                    ELSE IF default # Undefined THEN default
                    ELSE Str("")
    IN /\ ret.value.isValid =>
            GetAll(ParseURL(ret.value.url).searchParams, "text") = expected
       /\ ~ret.value.isValid =>
            \/ ret.value.error = Str(PhoneRequiredError)
            \/ StartsWithAt(ret.value.error[1], HostNotAllowedPrefix, 1)

\* an empty params.text with a default text: the default is the text of the
\* destination
TextIsNonEmptyParamElseDefaultWitness ==
  /\ ret.returned
  /\ call.fn = "buildRedirectUrl"
  /\ Prop(call.params, "text") = Str("")
  /\ call.linkConfig.defaultText = Str("Hello World")
  /\ ret.value.isValid
  /\ Get(ParseURL(ret.value.url).searchParams, "text") = Str("Hello World")

\* C8: for a wa.me base URL, buildWhatsAppUrl leaves the path alone only when
\* it is a slash followed by digits only and otherwise makes it /<phone>; it
\* sets the text parameter to the text and adds no phone parameter
WaMePathIsPhone ==
  (ret.returned /\ call.fn = "buildWhatsAppUrl"
     /\ ParseURL(call.baseUrl).hostname = "wa.me") =>
    LET base == ParseURL(call.baseUrl)
        url == ParseURL(ret.value)
        slashDigits == /\ Len(base.pathname) >= 2
                       /\ Char(base.pathname, 1) = "/"
                       /\ \A i \in 2..Len(base.pathname) : IsDigit(Char(base.pathname, i))
    IN /\ url.pathname = IF slashDigits THEN base.pathname
                         ELSE "/" \o PathEncode(call.phone)
       /\ GetAll(url.searchParams, "text") = <<call.text>>
       /\ GetAll(url.searchParams, "phone") = GetAll(base.searchParams, "phone")

\* C9: for an api.whatsapp.com or web.whatsapp.com base URL, buildWhatsAppUrl
\* makes the path /send unless the base path contains /send, and leaves
\* exactly one phone and one text parameter, equal to the phone and the text,
\* whatever the base URL had
ApiWebSendPhoneText ==
  (ret.returned /\ call.fn = "buildWhatsAppUrl"
     /\ ParseURL(call.baseUrl).hostname \in {"api.whatsapp.com", "web.whatsapp.com"}) =>
    LET base == ParseURL(call.baseUrl)
        url == ParseURL(ret.value)
        hasSend == \E i \in 1..Len(base.pathname) : StartsWithAt(base.pathname, "/send", i)
    IN /\ url.pathname = IF hasSend THEN base.pathname ELSE "/send"
       /\ url.hostname = base.hostname
       /\ GetAll(url.searchParams, "phone") = <<call.phone>>
       /\ GetAll(url.searchParams, "text") = <<call.text>>

\* a base URL with two phone parameters and a text: both are overwritten
ApiWebSendPhoneTextWitness ==
  /\ ret.returned
  /\ call.fn = "buildWhatsAppUrl"
  /\ call.baseUrl = "https://API.WhatsApp.com/?phone=111&text=old&phone=222"
  /\ call.phone = "12 3?#"
  /\ ParseURL(ret.value).pathname = "/send"
  /\ Get(ParseURL(ret.value).searchParams, "phone") = Str("12 3?#")

\* C10: extractPassthroughParams returns exactly the entries whose key is
\* neither phone nor text and whose value is a non-empty string, each with
\* its key and value unchanged, and once
PassthroughIsNonEmptyOthers ==
  (ret.returned /\ call.fn = "extractPassthroughParams") =>
    LET params == call.params
        result == ret.value
        kept == {i \in 1..Len(params) :
                   /\ params[i][1] \notin {"phone", "text"}
                   /\ params[i][2] # Undefined
                   /\ params[i][2] # Str("")}
    IN /\ {<<result[j][1], result[j][2]>> : j \in 1..Len(result)}
            = {<<params[i][1], params[i][2][1]>> : i \in kept}
       /\ Len(result) = Cardinality(kept)

\* parameters with a phone, a text, an undefined and kept entries
PassthroughIsNonEmptyOthersWitness ==
  /\ ret.returned
  /\ call.fn = "extractPassthroughParams"
  /\ Keys(call.params) = {"utm_source", "text", "phone", "custom", "Phone"}
  /\ Keys(ret.value) = {"utm_source", "Phone"}

\* C11: in a URL buildRedirectUrl built, on each platform, a passthrough
\* parameter (key other than phone and text, value a non-empty string) whose
\* key the base URL's query lacks appears once, with the caller's value; a
\* key the base URL's query has keeps the base URL's values
PassthroughFirstWriteWins ==
  (ret.returned /\ call.fn = "buildRedirectUrl" /\ ret.value.isValid) =>
    \A i \in 1..Len(call.params) :
      \E key \in {call.params[i][1]}, value \in {call.params[i][2]},
         base \in {ParseURL(BaseUrlOf(call.platform, call.linkConfig)[1]).searchParams},
         query \in {ParseURL(ret.value.url).searchParams} :
        (key \notin {"phone", "text"} /\ value # Undefined /\ value # Str("")) =>
          IF Has(base, key) THEN GetAll(query, key) = GetAll(base, key)
          ELSE GetAll(query, key) = value

\* the desktop URL of a base with utm_source=base, built with utm_source=fb
\* and Phone=1: the base's utm_source stays, Phone is added
PassthroughFirstWriteWinsWitness ==
  /\ ret.returned
  /\ call.fn = "buildRedirectUrl"
  /\ call.platform = "desktop"
  /\ Prop(call.params, "utm_source") = Str("fb")
  /\ ret.value.isValid
  /\ GetAll(ParseURL(ret.value.url).searchParams, "utm_source") = <<"base">>
  /\ GetAll(ParseURL(ret.value.url).searchParams, "Phone") = <<"1">>

\* C12: for a link entry whose three URL fields are valid absolute URLs,
\* buildRedirectUrl does not throw, and what it returns is either a success
\* (isValid true, a non-empty url, no error) or a failure (isValid false, an
\* empty url, and the phone-required or the host-not-allowed error)
BuildOutcomeIsTotalTagged ==
  (/\ call.fn = "buildRedirectUrl"
   /\ \A field \in {"androidFlowUrl", "iosWhatsappBaseUrl", "desktopWhatsappBaseUrl"} :
        IsString(call.linkConfig[field]) /\ IsValidURL(call.linkConfig[field][1])) =>
    /\ ~buildRedirectUrlThrows(call.platform, call.linkConfig, call.params)
    /\ ret.returned =>
         \/ /\ ret.value.isValid
            /\ ret.value.url # ""
            /\ ret.value.error = Undefined
         \/ /\ ~ret.value.isValid
            /\ ret.value.url = ""
            /\ \/ ret.value.error = Str(PhoneRequiredError)
               \/ /\ IsString(ret.value.error)
                  /\ StartsWithAt(ret.value.error[1], HostNotAllowedPrefix, 1)
                  /\ Len(ret.value.error[1]) > Len(HostNotAllowedPrefix)

\* a failure of the host check: the Android flow URL of evil.com, with a phone
BuildOutcomeIsTotalTaggedWitness ==
  /\ ret.returned
  /\ call.fn = "buildRedirectUrl"
  /\ call.platform = "android"
  /\ Prop(call.params, "phone") = Str("918888888888")
  /\ ~ret.value.isValid
  /\ ret.value.error = Str("Redirect to host not allowed: evil.com")

\* C13: when GET /r/:slug reaches buildRedirectUrl and the build fails, the
\* status is 400 if the failure is the phone-required one and 500 otherwise;
\* in both cases one redirect_error record is logged, no redirect record,
\* and the response has no Location header
FailureMapping ==
  (pc = "replied" /\ request.route = "/r/:slug" /\ Len(request.slug) >= 1) =>
    \E link \in {LookupLink(linksConfig, request.slug)},
       queryParams \in {QuerySchemaParse(request.query)},
       platform \in {detectPlatform(request.headers.userAgent)} :
      (/\ link # Undefined
       /\ ~IsBotRequest(request.headers.userAgent, queryParams)
       /\ ~buildRedirectUrlThrows(platform, link[1], RedirectParamsOf(queryParams))) =>
        \E result \in {buildRedirectUrl(platform, link[1], RedirectParamsOf(queryParams),
                                        allowedHosts)} :
          ~result.isValid =>
            /\ reply.status = IF result.error = Str(PhoneRequiredError) THEN 400 ELSE 500
            /\ Cardinality({i \in 1..Len(log) :
                 "event" \in DOMAIN log[i] /\ log[i].event = "redirect_error"}) = 1
            /\ \A i \in 1..Len(log) :
                 "event" \in DOMAIN log[i] => log[i].event # "redirect"
            /\ reply.headers.location = Undefined

\* an Android browser asks for /r/support with a phone: the flow URL of the
\* entry is on a host outside the allow-list, the answer is 500
FailureMappingWitness ==
  /\ pc = "replied"
  /\ request.route = "/r/:slug"
  /\ request.slug = "support"
  /\ detectPlatform(request.headers.userAgent) = "android"
  /\ ~isBot(request.headers.userAgent)
  /\ Get(request.query, "phone") = Str("918888888888")
  /\ reply.status = 500
  /\ Len(log) = 1
  /\ log[1].event = "redirect_error"
  /\ log[1].error = Str("Redirect to host not allowed: evil.com")

\* C14: the body of the 500 that answers a host-not-allowed failure carries
\* no detail of the failure: neither the error text of the redirect_error
\* record nor the host name it names occurs in a field of the body
ServerErrorBodyHasNoDetail ==
  (pc = "replied" /\ request.route = "/r/:slug" /\ reply.status = 500) =>
    \A i \in 1..Len(log) :
      ("event" \in DOMAIN log[i] /\ log[i].event = "redirect_error") =>
        \A field \in DOMAIN reply.body.json :
          /\ ~Includes(reply.body.json[field], log[i].error[1])
          /\ ~Includes(reply.body.json[field],
                       From(log[i].error[1], Len(HostNotAllowedPrefix) + 1))

\* C15 as stated: every request that was answered (not found, preview,
\* redirect, bad request, server error) logged exactly one record, whose
\* event is bot_preview, redirect, redirect_error or preview_view
OneAuditRecordPerOutcome ==
  pc = "replied" =>
    /\ Len(log) = 1
    /\ "event" \in DOMAIN log[1]
    /\ log[1].event \in {"bot_preview", "redirect", "redirect_error", "preview_view"}

\* C15: a request answered with a preview, a redirect or a failure of the
\* build logged exactly one record, whose event names the outcome
\* (bot_preview or preview_view for the 200 of the route, redirect for 302,
\* redirect_error for the 400 and the 500 of a build failure); a 404 of
\* GET /r/:slug logged one warning with the slug and no event, a 404 of
\* GET /preview/:slug logged nothing, and a 500 of the error handler logged
\* one error record with no event
OneAuditRecordPerResolvedOutcome ==
  pc = "replied" =>
    IF reply.status = 404
      THEN IF request.route = "/r/:slug"
             THEN log = <<[level |-> "warn", msg |-> "Slug not found",
                           slug |-> request.slug]>>
             ELSE log = <<>>
    ELSE IF reply.status = 500 /\ reply.body.json.error = "Internal Server Error"
      THEN Len(log) = 1 /\ "event" \notin DOMAIN log[1] /\ log[1].level = "error"
    ELSE /\ Len(log) = 1
         /\ "event" \in DOMAIN log[1]
         /\ log[1].event =
              IF reply.status = 302 THEN "redirect"
              ELSE IF reply.status \in {400, 500} THEN "redirect_error"
              ELSE IF request.route = "/r/:slug" THEN "bot_preview"
              ELSE "preview_view"

\* a crawler was answered the preview of GET /r/demo and one bot_preview
\* record was logged
OneAuditRecordPerResolvedOutcomeWitness ==
  /\ pc = "replied"
  /\ request.route = "/r/:slug"
  /\ request.slug = "demo"
  /\ reply.status = 200
  /\ log = <<[level |-> "info", event |-> "bot_preview", slug |-> "demo",
              bot |-> Str("Googlebot"), userAgent |-> request.headers.userAgent,
              hashedIp |-> hashIP(request.ip)]>>

\* C16: no record logged for a request carries the client address: no text
\* field of a record contains it, and a record's hashedIp is hashIP of the
\* address; hashIP answers "unknown" for an absent or empty address and
\* otherwise 16 hexadecimal digits that are not the address
RawIpNeverLogged ==
  /\ pc = "replied" =>
       \A i \in 1..Len(log) :
         /\ "hashedIp" \in DOMAIN log[i] => log[i].hashedIp = hashIP(request.ip)
         /\ Truthy(request.ip) =>
              /\ \A field \in DOMAIN log[i] \cap {"level", "event", "slug", "platform",
                                                  "hashedIp", "targetHost", "msg",
                                                  "err", "url"} :
                   ~Includes(log[i][field], request.ip[1])
              /\ \A field \in DOMAIN log[i] \cap {"bot", "userAgent", "error", "referer"} :
                   log[i][field] # Undefined => ~Includes(log[i][field][1], request.ip[1])
  /\ hashIP(Undefined) = "unknown"
  /\ hashIP(Str("")) = "unknown"
  /\ \A a \in 1..Len(Sha256Prefix) :
       \E hash \in {hashIP(Str(Sha256Prefix[a][1]))} :
         /\ Len(hash) = 16
         /\ \A i \in 1..16 : Char(hash, i) \in CharsOf("0123456789abcdef")
         /\ hash # Sha256Prefix[a][1]

\* a redirect was logged for the client at 203.0.113.7: the record carries
\* the hash of the address
RawIpNeverLoggedWitness ==
  /\ pc = "replied"
  /\ request.ip = Str("203.0.113.7")
  /\ reply.status = 302
  /\ Len(log) = 1
  /\ log[1].event = "redirect"
  /\ log[1].hashedIp = "6aadfa6af143229f"

\* C17: in a preview document, each interpolated value (title, description,
\* image, og:url, continue URL) stands escaped: the text found at its place
\* has no < > " ' and no & other than the start of an entity, and decodes to
\* the value; the title <script>x</script> stands as
\* &lt;script&gt;x&lt;/script&gt; and nowhere as a tag
InterpolationsAreEscaped ==
  (pc = "replied" /\ reply.status = 200 /\ reply.body.type = "html") =>
    LET html == reply.body.html
        linkConfig == LookupLink(linksConfig, request.slug)[1]
        queryString == IF request.route = "/r/:slug" THEN StripContinue(request.query)
                       ELSE SerializeQuery(request.query)
        ogTitle == OrElse(linkConfig.ogTitle, Str("Continue to WhatsApp"))[1]
        ogDescription ==
          OrElse(linkConfig.ogDescription, Str("Click to continue to your destination"))[1]
        Segment(from, opening, closing) ==
          SubSeq(html, IndexOf(html, opening, from) + Len(opening),
                 IndexOf(html, closing, IndexOf(html, opening, from) + Len(opening)) - 1)
        Escaped(segment, value) ==
          /\ \A i \in 1..Len(segment) :
               /\ Char(segment, i) \notin {"<", ">", "\"", "'"}
               /\ Char(segment, i) = "&" => EntityAt(segment, i) > 0
          /\ HtmlUnescape(segment) = value
        Stands(from, opening, closing, value) ==
          /\ IndexOf(html, opening, from) > 0
          /\ Escaped(Segment(from, opening, closing), value)
        noscript == IndexOf(html, "<noscript>", 1)
    IN /\ Stands(1, "<title>", "</title>", ogTitle)
       /\ Stands(1, "<meta property=\"og:title\" content=\"", "\">", ogTitle)
       /\ Stands(1, "<meta name=\"twitter:title\" content=\"", "\">", ogTitle)
       /\ Stands(1, "<h1>", "</h1>", ogTitle)
       /\ Stands(noscript, "<h1>", "</h1>", ogTitle)
       /\ Stands(1, "<meta property=\"og:description\" content=\"", "\">", ogDescription)
       /\ Stands(1, "<meta name=\"twitter:description\" content=\"", "\">", ogDescription)
       /\ Stands(1, "<p>", "</p>", ogDescription)
       /\ Stands(noscript, "<p>", "</p>", ogDescription)
       /\ Stands(1, "<meta property=\"og:url\" content=\"", "\">",
                 BaseUrlOfRequest(request) \o RedirectPath(request.slug, queryString))
       /\ Stands(1, ContinueAnchor, "\" class=", ContinueUrl(request.slug, queryString))
       /\ Stands(noscript, ContinueAnchor, "\" class=",
                 ContinueUrl(request.slug, queryString))
       /\ IF Truthy(linkConfig.ogImage)
            THEN /\ Stands(1, "<meta property=\"og:image\" content=\"", "\">",
                           linkConfig.ogImage[1])
                 /\ Stands(1, "<meta name=\"twitter:image\" content=\"", "\">",
                           linkConfig.ogImage[1])
            ELSE /\ ~Includes(html, "og:image")
                 /\ ~Includes(html, "twitter:image")
       /\ ogTitle = "<script>x</script>" =>
            /\ Includes(html, "<title>&lt;script&gt;x&lt;/script&gt;</title>")
            /\ ~Includes(html, "<script>x")

\* the preview of the entry whose title is <script>x</script>, asked with a
\* query that holds markup
InterpolationsAreEscapedWitness ==
  /\ pc = "replied"
  /\ reply.status = 200
  /\ reply.body.type = "html"
  /\ request.slug = "support"
  /\ Get(request.query, "text") = Str("<b>'x'</b>")
  /\ Includes(reply.body.html, "<h1>&lt;script&gt;x&lt;/script&gt;</h1>")
  /\ Includes(reply.body.html, "&quot;support&quot;")

\* C18: detectPlatform answers for every User-Agent, one of the three
\* platforms: ios when the text contains iPhone, iPad or iPod in any case,
\* even if it also contains Android; android for another text that contains
\* Android in any case; desktop otherwise, and for no or an empty User-Agent
PlatformPriority ==
  (call.fn = "detectPlatform" /\ ret.returned) =>
    /\ ret.value \in {"ios", "android", "desktop"}
    /\ ret.value =
         IF call.userAgent = Undefined \/ call.userAgent = Str("") THEN "desktop"
         ELSE IF \E i \in 1..Len(call.userAgent[1]), name \in {"iphone", "ipad", "ipod"} :
                   StartsWithAt(ToLowerCase(call.userAgent[1]), name, i)
           THEN "ios"
         ELSE IF \E i \in 1..Len(call.userAgent[1]) :
                   StartsWithAt(ToLowerCase(call.userAgent[1]), "android", i)
           THEN "android"
         ELSE "desktop"

\* a User-Agent that names iPad and Android is classified ios
PlatformPriorityWitness ==
  /\ call.fn = "detectPlatform"
  /\ call.userAgent = Str("Twitterbot/1.0 (iPad; Android)")
  /\ ret.returned
  /\ ret.value = "ios"

\* C19: for no or an empty User-Agent isBot is false and identifyBot null;
\* otherwise isBot is true exactly when identifyBot is not null, and
\* identifyBot returns the text matched by the first rule of BOT_PATTERNS, in
\* list order, that matches: a part of the User-Agent as written there
\* (not the rule's label, not the match that starts leftmost)
BotFirstRuleWins ==
  (call.fn \in {"isBot", "identifyBot"} /\ ret.returned) =>
    LET text == call.userAgent[1]
        MatchesAt(r, i) ==
          /\ StartsWithAt(ToLowerCase(text), BOT_PATTERNS[r][1], i)
          /\ BOT_PATTERNS[r][2] => ~IsWordChar(Char(text, i + Len(BOT_PATTERNS[r][1])))
        Matches(r) == \E i \in 1..Len(text) : MatchesAt(r, i)
        matching == {r \in 1..Len(BOT_PATTERNS) : Matches(r)}
        first == CHOOSE r \in matching : \A q \in matching : r <= q
        start == CHOOSE i \in 1..Len(text) :
                   MatchesAt(first, i) /\ \A j \in 1..(i - 1) : ~MatchesAt(first, j)
    IN IF call.userAgent = Undefined \/ call.userAgent = Str("")
         THEN ret.value = (IF call.fn = "isBot" THEN FALSE ELSE Undefined)
       ELSE IF call.fn = "isBot"
         THEN /\ ret.value = (identifyBot(call.userAgent) # Undefined)
              /\ ret.value = (matching # {})
       ELSE /\ (ret.value # Undefined) = isBot(call.userAgent)
            /\ IF matching = {} THEN ret.value = Undefined
               ELSE ret.value =
                      Str(SubSeq(text, start, start + Len(BOT_PATTERNS[first][1]) - 1))

\* a User-Agent where crawler stands before Twitterbot: the rule listed
\* first, Twitterbot, names the bot
BotFirstRuleWinsWitness ==
  /\ call.fn = "identifyBot"
  /\ call.userAgent = Str("MyCrawler/1.0 (like Twitterbot; Android 12)")
  /\ ret.returned
  /\ ret.value = Str("Twitterbot")

\* C20: GET /preview/:slug answers, for a slug of the links configuration,
\* 200 with the document of generatePreviewHtml and Cache-Control
\* "public, max-age=300", whatever the User-Agent and the query, and never a
\* redirect; for a slug that is not in the configuration it answers 404
ExplicitPreviewEndpoint ==
  (pc = "replied" /\ request.route = "/preview/:slug") =>
    IF request.slug \in DOMAIN linksConfig
      THEN /\ reply.status = 200
           /\ reply.body = [type |-> "html",
                            html |-> generatePreviewHtml(request.slug,
                                                         linksConfig[request.slug],
                                                         SerializeQuery(request.query),
                                                         BaseUrlOfRequest(request))]
           /\ reply.headers.cacheControl = Str("public, max-age=300")
           /\ reply.headers.location = Undefined
      ELSE reply.status = 404

\* C21: on GET /r/:slug, a request whose destination was built is answered
\* 302 with Location the URL buildRedirectUrl returned, Cache-Control
\* "no-cache, no-store, must-revalidate", Pragma "no-cache" and Expires "0";
\* a crawler that is not continuing is answered 200 with Content-Type
\* text/html; charset=utf-8 and the same Cache-Control
RedirectEndpointShape ==
  (pc = "replied" /\ request.route = "/r/:slug" /\ Len(request.slug) >= 1) =>
    \E link \in {LookupLink(linksConfig, request.slug)},
       queryParams \in {QuerySchemaParse(request.query)},
       platform \in {detectPlatform(request.headers.userAgent)} :
      link # Undefined =>
        IF IsBotRequest(request.headers.userAgent, queryParams)
          THEN /\ reply.status = 200
               /\ reply.headers.contentType = Str("text/html; charset=utf-8")
               /\ reply.headers.cacheControl = Str("no-cache, no-store, must-revalidate")
               /\ reply.body.type = "html"
          ELSE ~buildRedirectUrlThrows(platform, link[1], RedirectParamsOf(queryParams)) =>
                 \E result \in {buildRedirectUrl(platform, link[1],
                                                 RedirectParamsOf(queryParams),
                                                 allowedHosts)} :
                   /\ result.isValid =>
                        /\ reply.status = 302
                        /\ reply.headers.location = Str(result.url)
                        /\ reply.headers.cacheControl =
                             Str("no-cache, no-store, must-revalidate")
                        /\ reply.headers.pragma = Str("no-cache")
                        /\ reply.headers.expires = Str("0")
                   /\ reply.status = 302 => result.isValid

\* an iPhone asks for /r/demo with a phone and is sent to wa.me
RedirectEndpointShapeWitness ==
  /\ pc = "replied"
  /\ request.route = "/r/:slug"
  /\ request.slug = "demo"
  /\ detectPlatform(request.headers.userAgent) = "ios"
  /\ Get(request.query, "phone") = Str("918888888888")
  /\ reply.status = 302
  /\ reply.headers.location = Str("https://wa.me/918888888888?text=Hello+from+demo")
  /\ reply.headers.pragma = Str("no-cache")

\* C22: the continue link of the bot preview of slug s, asked with the query
\* Q, is /r/s?q&_continue=1, or /r/s?_continue=1 when q is empty, q being Q
\* serialized without its _continue entries; read back, the link's query is
\* the other parameters of Q with their values, then _continue=1, once
ContinueLinkShape ==
  (/\ pc = "replied"
   /\ request.route = "/r/:slug"
   /\ reply.status = 200
   /\ reply.body.type = "html") =>
    \E href \in {ContinueHref(reply.body.html)},
       others \in {SelectSeq(request.query, LAMBDA e : e[1] # "_continue")} :
      /\ href = "/r/" \o request.slug \o "?"
                  \o (IF others = <<>> THEN "" ELSE SerializeQuery(others) \o "&")
                  \o "_continue=1"
      /\ TargetQuery(href) = others \o << <<"_continue", "1">> >>
      /\ GetAll(TargetQuery(href), "_continue") = <<"1">>
      /\ \A i \in 1..Len(request.query) :
           request.query[i][1] # "_continue" =>
             GetAll(TargetQuery(href), request.query[i][1]) = <<request.query[i][2]>>

\* a crawler asks with _continue=0 and utm_source=test: the link carries
\* utm_source=test and _continue=1, and no _continue=0
ContinueLinkShapeWitness ==
  /\ pc = "replied"
  /\ request.route = "/r/:slug"
  /\ request.slug = "demo"
  /\ request.query = << <<"_continue", "0">>, <<"utm_source", "test">> >>
  /\ reply.status = 200
  /\ ContinueHref(reply.body.html) = "/r/demo?utm_source=test&_continue=1"

ApiLinksConfig ==
  [grapevine |->
     [androidFlowUrl |-> Str("https://mediummasala.github.io/linkedin-whatsapp-redirect/"),
      iosWhatsappBaseUrl |-> Str("https://wa.me/"),
      desktopWhatsappBaseUrl |-> Str("https://wa.me/"),
      defaultPhone |-> Str("919606047104"),
      defaultText |-> Str("Hi Tal, count me in!"),
      ogTitle |-> Str("Chat with Us on WhatsApp"),
      ogDescription |-> Str("Start a conversation instantly via WhatsApp"),
      ogImage |-> Str("https://example.com/og-image.png")]]

\* ALLOWED_HOSTS of api/index.ts
ApiAllowedHosts == {"wa.me", "api.whatsapp.com", "web.whatsapp.com", "mediummasala.github.io"}

\* detectPlatform of api/index.ts
ApiDetectPlatform(userAgent) ==
  IF ~Truthy(userAgent) THEN "desktop"
  ELSE IF IOS_REGEX(userAgent[1]) THEN "ios"
  ELSE IF ANDROID_REGEX(userAgent[1]) THEN "android"
  ELSE "desktop"

\* BOT_PATTERNS of api/index.ts, in lower case (the rules ignore case)
ApiBotPatterns ==
  {"linkedinbot", "twitterbot", "facebookexternalhit", "facebot", "slackbot",
   "discordbot", "whatsapp", "telegrambot", "googlebot", "bingbot", "applebot",
   "pinterest"}

\* isBot of api/index.ts
ApiIsBot(userAgent) ==
  IF ~Truthy(userAgent) THEN FALSE
  ELSE \E pattern \in ApiBotPatterns : Includes(ToLowerCase(userAgent[1]), pattern)

\* the two branches of buildWhatsAppUrl of api/index.ts on the host
ApiShapeForHost(url, host, phone, text) ==
  IF host = "wa.me"
    THEN SetParam(SetPathname(url, "/" \o phone), "text", text)
    ELSE SetParam(SetParam(SetPathname(url, "/send"), "phone", phone), "text", text)

\* buildWhatsAppUrl of api/index.ts
\* host = url.hostname.toLowerCase()
ApiShapeWhatsAppUrl(url, phone, text) ==
  ApiShapeForHost(url, ToLowerCase(url.hostname), phone, text)

\* buildWhatsAppUrl of api/index.ts
ApiBuildWhatsAppUrl(baseUrl, phone, text) ==
  SerializeURL(ApiShapeWhatsAppUrl(ParseURL(baseUrl), phone, text))

\* the loop of the Android branch: a key that starts with utm_ and that the
\* URL lacks is set, whatever its value
ApiAddUtm(url, query) ==
  LET F[i \in 0..Len(query)] ==
        IF i = 0 THEN url
        ELSE IF StartsWithAt(query[i][1], "utm_", 1)
                  /\ ~Has(F[i - 1].searchParams, query[i][1])
          THEN SetParam(F[i - 1], query[i][1], query[i][2])
        ELSE F[i - 1]
  IN F[Len(query)]

\* the Android branch of the handler
ApiBuildAndroidUrl(baseUrl, phone, text, query) ==
  SerializeURL(ApiAddUtm(SetParam(SetParam(ParseURL(baseUrl), "phone", phone),
                                  "text", text),
                         query))

\* the dispatch of the handler on the platform
ApiTargetUrl(platform, config, phone, text, query) ==
  IF platform = "android"
    THEN ApiBuildAndroidUrl(config.androidFlowUrl[1], phone, text, query)
  ELSE IF platform = "ios"
    THEN ApiBuildWhatsAppUrl(config.iosWhatsappBaseUrl[1], phone, text)
  ELSE ApiBuildWhatsAppUrl(config.desktopWhatsappBaseUrl[1], phone, text)

\* continueUrl of generatePreviewHtml of api/index.ts
ApiContinueUrl(slug, queryString) ==
  "/r/" \o slug \o (IF queryString # "" THEN "?" \o queryString \o "&" ELSE "?")
    \o "_continue=1"

\* the opening of the continue link of api/index.ts, up to its href value
ApiContinueAnchor == "<a href=\""

\* the document of generatePreviewHtml of api/index.ts from its values on
\* (the fixed style sheet and the white space are left out)
ApiPreviewDocument(ogTitle, ogDescription, ogImage, continueUrl) ==
  "<!DOCTYPE html><html lang=\"en\"><head>"
    \o "<title>" \o ogTitle \o "</title>"
    \o "<meta property=\"og:title\" content=\"" \o ogTitle \o "\">"
    \o "<meta property=\"og:description\" content=\"" \o ogDescription \o "\">"
    \o "<meta property=\"og:type\" content=\"website\">"
    \o (IF ogImage # ""
          THEN "<meta property=\"og:image\" content=\"" \o ogImage \o "\">"
          ELSE "")
    \o "<meta name=\"twitter:card\" content=\"summary_large_image\">"
    \o "<meta name=\"twitter:title\" content=\"" \o ogTitle \o "\">"
    \o "<meta name=\"twitter:description\" content=\"" \o ogDescription \o "\">"
    \o "</head><body>"
    \o "<h1>" \o ogTitle \o "</h1>"
    \o "<p>" \o ogDescription \o "</p>"
    \o ApiContinueAnchor \o continueUrl \o "\" class=\"btn\">Continue</a>"
    \o "</body></html>"

\* generatePreviewHtml of api/index.ts (its baseUrl is not used)
ApiGeneratePreviewHtml(slug, config, queryString, baseUrl) ==
  ApiPreviewDocument(OrElse(config.ogTitle, Str("Continue to WhatsApp"))[1],
                     OrElse(config.ogDescription, Str("Click to continue"))[1],
                     OrElse(config.ogImage, Str(""))[1],
                     ApiContinueUrl(slug, queryString))

\* the paths requested: the health check, the slug of the configuration
\* under both prefixes, a slug that is not configured, and other paths
ApiPaths ==
  {"/health", "/api", "/r/grapevine", "/api/r/grapevine", "/r/nonexistent",
   "/r/grapevine/x", "/"}

\* path.match(/^\/(?:api\/)?r\/([^\/]+)$/): the slug, undefined without a match
ApiSlugAfter(rest) ==
  IF StartsWithAt(rest, "/r/", 1) /\ Len(rest) > 3 /\ ~Includes(From(rest, 4), "/")
    THEN Str(From(rest, 4))
    ELSE Undefined

ApiSlugOf(path) ==
  IF StartsWithAt(path, "/api/r/", 1) THEN ApiSlugAfter(From(path, 5))
  ELSE ApiSlugAfter(path)

\* a response of the handler: the two security headers are set first, the
\* other headers are those the handler sets itself
ApiReply(status, contentType, cacheControl, location, body) ==
  [status |-> status,
   headers |-> [xContentTypeOptions |-> Str("nosniff"), xFrameOptions |-> Str("DENY"),
                contentType |-> contentType, cacheControl |-> cacheControl,
                location |-> location],
   body |-> body]

\* res.status(status).json(payload)
ApiJson(status, payload) ==
  ApiReply(status, Undefined, Undefined, Undefined, [type |-> "json", json |-> payload])

\* what the handler does besides answering: no analytics call
NoSheet == Undefined

\* the bot branch of the handler
ApiBotPreview(req, slug, config) ==
  [reply |-> ApiReply(200, Str("text/html"), Undefined, Undefined,
                      [type |-> "html",
                       html |-> ApiGeneratePreviewHtml(
                                  slug, config, StripContinue(req.query),
                                  OrElse(req.headers.xForwardedProto, Str("https"))[1]
                                    \o "://"
                                    \o OrElse(req.headers.host, Str("localhost"))[1])]),
   sheet |-> NoSheet]

\* the end of the handler, from the target URL on: the host check, the
\* analytics call that is started and not awaited, the redirect
ApiRedirect(req, slug, platform, targetUrl) ==
  IF ToLowerCase(ParseURL(targetUrl).hostname) \notin ApiAllowedHosts
    THEN [reply |-> ApiJson(500, [error |-> "Redirect host not allowed"]),
          sheet |-> NoSheet]
    ELSE [reply |-> ApiReply(302, Undefined, Str("no-cache, no-store, must-revalidate"),
                             Str(targetUrl), [type |-> "empty"]),
          sheet |-> Str([slug |-> slug, platform |-> platform,
                         referer |-> OrElse(req.headers.referer, Str(""))[1],
                         utm_source |-> OrElse(Get(req.query, "utm_source"), Str(""))[1],
                         utm_campaign |->
                           OrElse(Get(req.query, "utm_campaign"), Str(""))[1]])]

\* the handler after the bot branch: phone and text, then the platform
ApiResolve(req, slug, config, phone, text) ==
  IF ~Truthy(phone)
    THEN [reply |-> ApiJson(400, [error |-> "Phone number required"]), sheet |-> NoSheet]
    ELSE ApiRedirect(req, slug, ApiDetectPlatform(req.headers.userAgent),
                     ApiTargetUrl(ApiDetectPlatform(req.headers.userAgent), config,
                                  phone[1], text, req.query))

\* the handler once the path has given a slug
ApiHandleSlug(req, slug, config) ==
  IF config = Undefined
    THEN [reply |-> ApiJson(404, [error |-> "Link not found", slug |-> slug]),
          sheet |-> NoSheet]
  ELSE IF ApiIsBot(req.headers.userAgent) /\ Get(req.query, "_continue") # Str("1")
    THEN ApiBotPreview(req, slug, config[1])
  ELSE ApiResolve(req, slug, config[1],
                  OrElse(Get(req.query, "phone"), config[1].defaultPhone),
                  OrElse(OrElse(Get(req.query, "text"), config[1].defaultText),
                         Str(""))[1])

\* handler of api/index.ts: the response, and the data of the analytics
\* call it starts
handler(req, config) ==
  IF req.path \in {"/health", "/api/health", "/api"}
    THEN [reply |-> ApiReply(200, Undefined, Undefined, Undefined,
                             [type |-> "text", text |-> "ok"]),
          sheet |-> NoSheet]
  ELSE IF ApiSlugOf(req.path) = Undefined
    THEN [reply |-> ApiJson(404, [error |-> "Not Found"]), sheet |-> NoSheet]
  ELSE ApiHandleSlug(req, ApiSlugOf(req.path)[1],
                     LookupLink(config, ApiSlugOf(req.path)[1]))

\* logToSheet without its try and catch: a failed POST rejects the promise,
\* which nothing handles
logToSheetWithoutCatch(posted) ==
  IF posted THEN [promise |-> "fulfilled", console |-> <<>>]
  ELSE [promise |-> "rejected", console |-> <<>>]

\* logToSheet once fetch has settled: the promise it returned, and what it
\* wrote to the console; a failed POST is caught and reported
logToSheet(posted) ==
  IF posted THEN [promise |-> "fulfilled", console |-> <<>>]
  ELSE [promise |-> "fulfilled",
        console |-> <<[level |-> "error", msg |-> "Failed to log to sheet:"]>>]

\* a request arrives at the serverless function
ApiReceive ==
  /\ pc = "idle"
  /\ \E path \in ApiPaths, query \in Queries, userAgent \in UserAgents,
        client \in Clients :
       request' = [route |-> "api", path |-> path, query |-> query, ip |-> client.ip,
                   headers |-> [userAgent |-> userAgent, referer |-> client.referer,
                                xForwardedProto |-> client.xForwardedProto,
                                xForwardedHost |-> client.xForwardedHost,
                                host |-> client.host]]
  /\ pc' = "pending"
  /\ UNCHANGED <<configModule, linksConfig, allowedHosts, reply, log, call, ret>>

\* the handler runs to its response; for a redirect it has started logToSheet,
\* whose POST is in flight when the response is sent
ApiHandle ==
  /\ pc = "pending"
  /\ \E out \in {handler(request, linksConfig)} :
       /\ reply' = out.reply
       /\ call' = IF out.sheet = NoSheet THEN NoCall
                  ELSE [fn |-> "logToSheet", data |-> out.sheet[1]]
  /\ ret' = NoRet
  /\ pc' = "replied"
  /\ UNCHANGED <<configModule, linksConfig, allowedHosts, request, log>>

\* the POST of a logToSheet call in flight succeeds or fails, and the call
\* settles
SheetSettles ==
  /\ call.fn = "logToSheet"
  /\ ~ret.returned
  /\ \E posted \in BOOLEAN :
       \E settled \in {logToSheet(posted)} :
         /\ ret' = Return(settled.promise)
         /\ log' = log \o settled.console
  /\ UNCHANGED <<configModule, linksConfig, allowedHosts, pc, request, reply, call>>

\* the exchange is over; the function instance is suspended, and a POST
\* still in flight never completes
ApiClose ==
  /\ pc = "replied"
  /\ pc' = "idle"
  /\ request' = NoRequest
  /\ reply' = NoReply
  /\ log' = <<>>
  /\ call' = NoCall
  /\ ret' = NoRet
  /\ UNCHANGED <<configModule, linksConfig, allowedHosts>>

\* the module of api/index.ts is loaded, before the first request
InitApi ==
  /\ configModule = Unloaded([ALLOWED_HOSTS |-> Undefined], LinksJson)
  /\ linksConfig = ApiLinksConfig
  /\ allowedHosts = ApiAllowedHosts
  /\ pc = "idle"
  /\ request = NoRequest
  /\ reply = NoReply
  /\ log = <<>>
  /\ call = NoCall
  /\ ret = NoRet

NextApi ==
  \/ ApiReceive
  \/ ApiHandle
  \/ SheetSettles
  \/ ApiClose

SpecApi == InitApi /\ [][NextApi]_vars

(***************************************************************************)
(* Properties of the serverless handler (SpecApi)                          *)
(***************************************************************************)

\* C24: in the serverless handler, on each platform, every query parameter
\* of the request with a non-empty value, other than phone and text, is in
\* the query of the Location of a redirect, unless the base URL has the key
ApiForwardsParameters ==
  (pc = "replied" /\ request.route = "api" /\ reply.status = 302) =>
    \A i \in 1..Len(request.query) :
      \E key \in {request.query[i][1]}, value \in {request.query[i][2]} :
        (key \notin {"phone", "text"} /\ value # "") =>
          Get(ParseURL(reply.headers.location[1]).searchParams, key) = Str(value)

\* C26: the response of the serverless handler is what the handler computes
\* from the request, whether the analytics call it started is in flight, has
\* succeeded or has failed: a redirect is sent with the call started and not
\* awaited, a settled call is fulfilled (a failed POST is caught and written
\* to the console), and no response is an error because of it
FireAndForget ==
  /\ (pc = "replied" /\ request.route = "api") =>
       /\ reply = handler(request, linksConfig).reply
       /\ reply.status = 302 <=> call.fn = "logToSheet"
       /\ reply.status = 302 => reply.headers.location # Undefined
  /\ (call.fn = "logToSheet" /\ ret.returned) => ret.value = "fulfilled"

\* the 302 of a request whose analytics POST has failed: the failure is on
\* the console, the response is the redirect
FireAndForgetWitness ==
  /\ pc = "replied"
  /\ request.route = "api"
  /\ reply.status = 302
  /\ reply.headers.location = Str("https://wa.me/918888888888?text=Hi+Tal%2C+count+me+in%21")
  /\ call.fn = "logToSheet"
  /\ ret.returned
  /\ log = <<[level |-> "error", msg |-> "Failed to log to sheet:"]>>

\* C27: the preview document of the serverless handler carries its title,
\* description, image URL and continue URL HTML-escaped
ApiInterpolationsAreEscaped ==
  (pc = "replied" /\ request.route = "api" /\ reply.status = 200
     /\ reply.body.type = "html") =>
    \E config \in {LookupLink(linksConfig, ApiSlugOf(request.path)[1])[1]} :
      reply.body.html =
        ApiPreviewDocument(
          escapeHtml(OrElse(config.ogTitle, Str("Continue to WhatsApp"))[1]),
          escapeHtml(OrElse(config.ogDescription, Str("Click to continue"))[1]),
          escapeHtml(OrElse(config.ogImage, Str(""))[1]),
          escapeHtml(ApiContinueUrl(ApiSlugOf(request.path)[1],
                                    StripContinue(request.query))))

(***************************************************************************)
(* Further properties of the server (Spec)                                 *)
(***************************************************************************)

ContinueReachesDestination ==
  (/\ pc = "replied"
   /\ request.route = "/r/:slug"
   /\ request.slug \in DOMAIN linksConfig
   /\ Get(request.query, "_continue") = Str("1")
   /\ reply.status = 302) =>
    \E base \in {ParseURL(BaseUrlOf(detectPlatform(request.headers.userAgent),
                                    linksConfig[request.slug])[1]).searchParams},
       destination \in {ParseURL(reply.headers.location[1]).searchParams} :
      GetAll(destination, "_continue") =
        IF Has(base, "_continue") THEN GetAll(base, "_continue") ELSE <<"1">>

\* a crawler's preview of /r/demo was continued from an Android browser: the
\* flow URL it is sent to carries _continue=1
ContinueReachesDestinationWitness ==
  /\ pc = "replied"
  /\ request.route = "/r/:slug"
  /\ request.slug = "demo"
  /\ request.origin = "continue"
  /\ detectPlatform(request.headers.userAgent) = "android"
  /\ reply.status = 302
  /\ Get(ParseURL(reply.headers.location[1]).searchParams, "_continue") = Str("1")

(***************************************************************************)
(* src/config.ts and the registration of the routes                        *)
(***************************************************************************)

\* the most calls of one loader between two calls of resetConfig the model
\* follows
MaxLoads == 2

\* the values of ALLOWED_HOSTS in process.env: absent, or the list of the
\* test suite
Environments ==
  {[ALLOWED_HOSTS |-> Undefined],
   [ALLOWED_HOSTS |-> Str(" WA.me , api.whatsapp.com,web.whatsapp.com,,flow.example.com")]}

\* the contents of config/links.json: the configuration, and an edit of it
\* that keeps one slug and changes its default phone
LinksFiles ==
  {LinksJson,
   [slug \in {"demo"} |-> [LinksJson.demo EXCEPT !.defaultPhone = Str("4915112345678")]]}

\* the requests sent to the registered server
ProbeSlugs == {"demo"}
ProbeQueries == {<< <<"utm_source", "test">> >>}
ProbeUserAgents ==
  {Str("Mozilla/5.0 (iPhone; CPU iPhone OS 16_0 like Mac OS X)"),
   Str("Mozilla/5.0 (compatible; Googlebot/2.1; +http://www.google.com/bot.html)")}

\* process.env or links.json changes under the running process
ChangeEnvironment ==
  /\ pc \in {"unregistered", "idle"}
  /\ \E env \in Environments, file \in LinksFiles :
       configModule' = [configModule EXCEPT !.env = env, !.file = file]
  /\ UNCHANGED <<linksConfig, allowedHosts, pc, request, reply, log, call, ret>>

\* getEnvConfig() is called
CallGetEnvConfig ==
  /\ pc \in {"unregistered", "idle"}
  /\ \E out \in {getEnvConfig(configModule)} :
       /\ out.config.loads.env <= MaxLoads
       /\ configModule' = out.config
       /\ ret' = Return(out.value)
  /\ call' = [fn |-> "getEnvConfig"]
  /\ UNCHANGED <<linksConfig, allowedHosts, pc, request, reply, log>>

\* getLinksConfig() is called
CallGetLinksConfig ==
  /\ pc \in {"unregistered", "idle"}
  /\ \E out \in {getLinksConfig(configModule)} :
       /\ out.config.loads.links <= MaxLoads
       /\ configModule' = out.config
       /\ ret' = Return(out.value)
  /\ call' = [fn |-> "getLinksConfig"]
  /\ UNCHANGED <<linksConfig, allowedHosts, pc, request, reply, log>>

\* resetConfig() is called
CallResetConfig ==
  /\ pc \in {"unregistered", "idle"}
  /\ configModule' = resetConfig(configModule)
  /\ call' = [fn |-> "resetConfig"]
  /\ ret' = Return(Undefined)
  /\ UNCHANGED <<linksConfig, allowedHosts, pc, request, reply, log>>

\* redirectRoutes(fastify) up to the registration of its routes: the three
\* constants of the closure
Register ==
  /\ pc = "unregistered"
  /\ \E links \in {getLinksConfig(configModule)} :
       \E env \in {getEnvConfig(links.config)} :
         /\ env.config.loads.env <= MaxLoads
         /\ env.config.loads.links <= MaxLoads
         /\ linksConfig' = links.value
         /\ allowedHosts' = getAllowedHosts(env.value.ALLOWED_HOSTS)
         /\ configModule' = env.config
  /\ pc' = "idle"
  /\ UNCHANGED <<request, reply, log, call, ret>>

\* a request arrives at one of the two routes of the registered server
ReceiveProbe ==
  /\ pc = "idle"
  /\ \E route \in Routes, slug \in ProbeSlugs, query \in ProbeQueries,
        userAgent \in ProbeUserAgents, client \in Clients :
       request' = MakeRequest(route, slug, query, userAgent, client, "direct")
  /\ pc' = "pending"
  /\ UNCHANGED <<configModule, linksConfig, allowedHosts, reply, log, call, ret>>

\* the process has imported config.ts; no route is registered
InitConfig ==
  /\ \E env \in Environments, file \in LinksFiles : configModule = Unloaded(env, file)
  /\ linksConfig = Undefined
  /\ allowedHosts = {}
  /\ pc = "unregistered"
  /\ request = NoRequest
  /\ reply = NoReply
  /\ log = <<>>
  /\ call = NoCall
  /\ ret = NoRet

NextConfig ==
  \/ ChangeEnvironment
  \/ CallGetEnvConfig
  \/ CallGetLinksConfig
  \/ CallResetConfig
  \/ Register
  \/ ReceiveProbe
  \/ HandleRedirect
  \/ HandlePreview
  \/ FollowContinue
  \/ Close

SpecConfig == InitConfig /\ [][NextConfig]_vars

(***************************************************************************)
(* Properties of the configuration (SpecConfig)                            *)
(***************************************************************************)

\* C30: the configuration is loaded once and read-only afterwards. Each
\* loader is called at most once between two calls of resetConfig; a call of
\* getLinksConfig or getEnvConfig made while the singleton is set returns the
\* value of the singleton and leaves it as it is, whatever links.json and
\* the environment have become; requests are served only after the routes
\* have captured the configuration and the allow-list, and from then on no
\* step changes the captured values.
ConfigurationLoadedOnce ==
  [][/\ configModule'.loads.env <= 1
     /\ configModule'.loads.links <= 1
     /\ (call'.fn = "getLinksConfig" /\ configModule.linksConfig # Undefined) =>
          /\ ret'.value = configModule.linksConfig[1]
          /\ configModule'.linksConfig = configModule.linksConfig
     /\ (call'.fn = "getEnvConfig" /\ configModule.envConfig # Undefined) =>
          /\ ret'.value = configModule.envConfig[1]
          /\ configModule'.envConfig = configModule.envConfig
     /\ pc = "unregistered" => request' = NoRequest
     /\ pc # "unregistered" =>
          /\ linksConfig' = linksConfig
          /\ allowedHosts' = allowedHosts
    ]_vars

\* after the registration, links.json was edited, resetConfig was called
\* and getLinksConfig has loaded the edited file: the routes answer a request
\* with the configuration they captured
ConfigurationLoadedOnceWitness ==
  /\ pc = "replied"
  /\ request.route = "/r/:slug"
  /\ reply.status = 302
  /\ call.fn = "getLinksConfig"
  /\ configModule.linksConfig # Undefined
  /\ configModule.linksConfig # Str(linksConfig)
  /\ configModule.loads.links = 1

====
